---- MODULE Spec2Model ----
(***************************************************************************)
(* The six-stage pipeline of tools/templates/vfvs_run.py: the driver       *)
(* (process, flush_queue), the Downloader (downloader), the Unpacker       *)
(* (untar, unpack_item), the Validator (collection_process,                *)
(* submit_ligand_for_docking), the Executor (docking_process,              *)
(* docking_process_batch), the Aggregator (summary_process,                *)
(* check_for_completion_of_collection_key) and the Uploader                *)
(* (upload_process).  Every multiprocessing.Queue is a FIFO sequence; the  *)
(* termination sentinel None is the record [type |-> "None"].              *)
(***************************************************************************)
EXTENDS Integers, Sequences, FiniteSets, TLC

VARIABLES
    ctx,                  \* ctx['main_config'], ctx['subjob_config'], VFVS_VCPUS
    env,                  \* what storage, archives, ligand files and backends do
    driver,               \* position of process() / flush_queue()
    queue,                \* the six multiprocessing.Queue objects of process()
    processes,            \* the six worker pools of process()
    overview_data,        \* summary_process: the OverviewReport counters and logs
    summary_data,         \* summary_process: scenario -> ligand -> row
    dockings_processed,   \* summary_process: number of docking_complete events
    collection_completions, \* summary_process: base_collection_key -> state
    scratch,              \* file system: state of every collection's temp_dir
    uploaded,             \* file system: the artifacts transferred, and the
                          \* state of every upload request's temp_dir
    hist                  \* history: what was dispatched, emitted and archived

aggregator == <<overview_data, summary_data, dockings_processed,
                collection_completions>>
vars == <<ctx, env, driver, queue, processes, aggregator, scratch, uploaded, hist>>

----------------------------------------------------------------------------
(* Bounds of the model.                                                     *)

MaxCollections == 2     \* collections of a subjob
MaxLigands == 2         \* ligand files of all archives of a subjob together
VCpus == 2              \* VFVS_VCPUS

(* Program constants.                                                       *)
UnpackHighWater == 35       \* downloader: while unpack_queue.qsize() > 35
CollectionHighWater == 35   \* untar: while collection_queue.qsize() > 35
DockingHighWater == 100     \* submit_ligand_for_docking: qsize() > 100
SummaryHighWater == 200     \* docking_process_batch: qsize() > 200
DownloadHighWater == 25     \* process: while download_queue.qsize() > 25
NumUploaders == 2           \* process: for i in range(0, 2)
VCpusPerWorker == 8         \* process: math.ceil(vcpus_to_use / 8.0)
UnknownExpected == -1       \* summary_process: 'expected_completions': -1

None == [type |-> "None"]

Stages == <<"download", "unpack", "collection", "docking", "summary", "upload">>

Range(s) == {s[i] : i \in DOMAIN s}

RECURSIVE SumSeq(_)
SumSeq(s) == IF s = <<>> THEN 0 ELSE Head(s) + SumSeq(Tail(s))

----------------------------------------------------------------------------
(* Configuration: ctx['main_config'] and ctx['subjob_config'].              *)

(* The backend table, for four of its programs.  Every registered backend   *)
(* has a start and an end function and the execution model 'single'.       *)
DOCKING_PROGRAMS ==
    [p \in {"qvina02", "smina", "plants", "CovDock"} |->
        [ligands |-> "single",
         end |-> CASE p = "qvina02" -> "docking_finish_vina"
                   [] p = "smina" -> "docking_finish_smina"
                   [] p = "plants" -> "docking_finish_plants"
                   [] p = "CovDock" -> "docking_finish_covdock"]]

Scenario(k, prog, r, b) ==
    [key |-> k, program |-> prog, replicas |-> r, batchsizes |-> b]

(* One collection of subjob['collections'].  collection_key is the number   *)
(* of the collection; name_match says whether collection_name matches the   *)
(* dynamic tranche filtering regex; capacity bounds the ligands of its      *)
(* archive and names tells the names of its ligand files: those of          *)
(* LigandName for the key names.  listing holds the rows of the '.listing'  *)
(* file of the archive (read in mode prescreen_mode only) and ligands the   *)
(* names of the mode named.                                                 *)
Collection(k, st, m, nm, cap) ==
    [collection_key |-> k, storage |-> st, mode |-> m, name_match |-> nm,
     dockings |-> cap, capacity |-> cap, names |-> k,
     prescreen_ligands_per_tranche |-> 0, listing |-> <<>>, ligands |-> <<>>]

MainConfig(vcpus, sc, pm, dtf, rv, cols) ==
    [vcpus_to_use |-> vcpus, docking_scenarios |-> sc, prescreen_mode |-> pm,
     dynamic_tranche_filtering |-> dtf, regex_valid |-> rv,
     run_atom_check |-> 1, collections |-> cols]

(* n collections in mode full, each with cap ligands in its archive.        *)
Collections(n, cap, st, nm) ==
    [i \in 1..n |-> Collection(i, st, "full", nm[i], cap)]

(* The name of ligand j in the archive of collection k.                     *)
LigandName(k, j) == <<k, j>>

(* The member '.listing' of an archive, which is no ligand.                 *)
Listing == <<0, 0>>

(* The collection key that row j of a '.listing' file names: the key of     *)
(* the collection the ligand was screened in, none of this subjob's.        *)
ScreenKey(j) == MaxCollections + j

(* One collection in mode prescreen_mode.  Row j of its '.listing' names    *)
(* ligand j with screen index j - 1; the cutoff keeps all but the last.     *)
PrescreenCollection(k, cap) ==
    [Collection(k, "s3", "prescreen_mode", TRUE, cap) EXCEPT
        !.prescreen_ligands_per_tranche = cap - 1,
        !.listing = [j \in 1..cap |->
                        [screen_collection_key |-> ScreenKey(j),
                         screen_ligand_name |-> LigandName(k, j),
                         screen_index |-> j - 1]]]

(* One collection in mode named, which names the last ligand of its         *)
(* archive.                                                                 *)
NamedCollection(k, cap) ==
    [Collection(k, "s3", "named", TRUE, cap) EXCEPT
        !.ligands = <<LigandName(k, cap)>>]

(* One collection in mode named, which names the last ligand of its         *)
(* archive and a ligand that its archive does not hold.                     *)
NamedAbsentCollection(k, cap) ==
    [Collection(k, "s3", "named", TRUE, cap) EXCEPT
        !.ligands = <<LigandName(k, cap), LigandName(k, cap + 1)>>]

(* Two collections in mode full whose archives hold ligand files of the     *)
(* same names.                                                              *)
SameNameCollections(cap) ==
    <<Collection(1, "s3", "full", TRUE, cap),
      [Collection(2, "s3", "full", TRUE, cap) EXCEPT !.names = 1]>>

(* As many collections as fill the collection queue above its high-water   *)
(* mark while one is with a Validator and one with an Unpacker.             *)
ManyCollections == CollectionHighWater + 3

AllMatch == [i \in 1..MaxCollections |-> TRUE]
FirstOnlyMatch == [i \in 1..MaxCollections |-> i = 1]
AllButLastOfBound == [i \in 1..(MaxCollections + 1) |-> i # MaxCollections]

(* A ligand file is a sequence of lines.  banned: the line matches the      *)
(* element regex; atom: 0, or the coordinates of an ATOM line; tranche:     *)
(* "none", or whether the tranche of a 'Tranche:' line matches the regex.   *)
Line(b, a, t) == [banned |-> b, atom |-> a, tranche |-> t]

CleanFile == <<Line(FALSE, 1, "none"), Line(FALSE, 2, "none")>>
DuplicateFile == <<Line(FALSE, 1, "none"), Line(FALSE, 1, "none")>>
BannedFile == <<Line(FALSE, 1, "none"), Line(TRUE, 0, "none")>>
TrancheMatchFile == <<Line(FALSE, 0, "match"), Line(FALSE, 1, "none")>>
TrancheNoMatchFile == <<Line(FALSE, 0, "nomatch"), Line(FALSE, 1, "none")>>

(* Files that violate two checks: duplicate coordinates on a line before    *)
(* the one with a banned element; both on one line; a tranche that does     *)
(* not match on a line before duplicate coordinates.                        *)
DuplicateThenBannedFile ==
    <<Line(FALSE, 1, "none"), Line(FALSE, 1, "none"), Line(TRUE, 0, "none")>>
BannedDuplicateLineFile == <<Line(FALSE, 1, "none"), Line(TRUE, 1, "none")>>
TrancheThenDuplicateFile ==
    <<Line(FALSE, 0, "nomatch"), Line(FALSE, 1, "none"), Line(FALSE, 1, "none")>>

(* The environment of a run: the ligand files an archive can hold, what a   *)
(* backend invocation can do, the scores it can report, and whether a       *)
(* fetch, the opening of an archive or an upload can fail.                  *)
Environment(files, outcomes, fetch, corrupt, upload) ==
    [files |-> files, outcomes |-> outcomes, scores |-> {1},
     fetch_fails |-> fetch, corrupt |-> corrupt, upload_fails |-> upload]

Quiet(files, outcomes) == Environment(files, outcomes, FALSE, FALSE, FALSE)

(* A quiet environment whose successful dockings score any of scores.       *)
Scored(files, scores) ==
    [Quiet(files, {"success"}) EXCEPT !.scores = scores]

Run(c, e) == [ctx |-> c, env |-> e]

OneScenario(r, b) == <<Scenario("s1", "qvina02", r, b)>>
TwoScenarios == <<Scenario("s1", "qvina02", 1, 1), Scenario("s2", "smina", 1, 2)>>

(* The runs of the pipeline that are explored.                              *)
Runs ==
    { \* one collection, its ligands batched by two Executors
      Run(MainConfig(VCpus, OneScenario(1, 2), 0, 0, TRUE,
                     Collections(1, MaxLigands, "s3", AllMatch)),
          Quiet({CleanFile, DuplicateFile}, {"success", "timeout"})),
      \* two ligands with two replicas each, one task a batch
      Run(MainConfig(VCpus, OneScenario(2, 1), 0, 0, TRUE,
                     Collections(1, MaxLigands, "s3", AllMatch)),
          Quiet({CleanFile}, {"success"})),
      \* several collections, their tasks sharing batches
      Run(MainConfig(VCpus, OneScenario(1, 2), 0, 0, TRUE,
                     Collections(MaxCollections, 1, "s3", AllMatch)),
          Quiet({CleanFile}, {"success", "timeout"})),
      \* replicas of one ligand
      Run(MainConfig(VCpus, OneScenario(2, 2), 0, 0, TRUE,
                     Collections(1, 1, "s3", AllMatch)),
          Quiet({CleanFile, BannedFile},
                {"success", "non zero return code", "no score"})),
      \* two scenarios
      Run(MainConfig(VCpus, TwoScenarios, 0, 0, TRUE,
                     Collections(1, 1, "s3", AllMatch)),
          Quiet({CleanFile}, {"success", "no score"})),
      \* several collections; fetches and archives can fail
      Run(MainConfig(VCpus, OneScenario(1, 1), 0, 0, TRUE,
                     Collections(MaxCollections, 1, "s3", AllMatch)),
          Environment({CleanFile}, {"success"}, TRUE, TRUE, FALSE)),
      \* shared file system; fetches can fail
      Run(MainConfig(VCpus, OneScenario(1, 1), 0, 0, TRUE,
                     Collections(MaxCollections, 1, "sharedfs", AllMatch)),
          Environment({CleanFile}, {"success"}, TRUE, FALSE, FALSE)),
      \* shared file system; uploads can fail
      Run(MainConfig(VCpus, OneScenario(1, 1), 0, 0, TRUE,
                     Collections(1, 1, "sharedfs", AllMatch)),
          Environment({CleanFile}, {"success"}, FALSE, FALSE, TRUE)),
      \* a scenario whose program is not in the backend table
      Run(MainConfig(VCpus, <<Scenario("s1", "unregistered", 1, 1)>>, 0, 0, TRUE,
                     Collections(1, 1, "s3", AllMatch)),
          Quiet({CleanFile}, {"success"})),
      \* the same, with more replicas of one ligand than the dying Executors
      \* take from the docking queue before it is above its high-water mark
      Run(MainConfig(VCpus, <<Scenario("s1", "unregistered",
                                       DockingHighWater + VCpus + 1, 1)>>,
                     0, 0, TRUE, Collections(1, 1, "s3", AllMatch)),
          Quiet({CleanFile}, {"success"})) }
    \cup
    \* a prescreen: the '.listing' of the archive chooses the ligands
    { Run(MainConfig(VCpus, OneScenario(1, 1), 1, 0, TRUE,
                     <<PrescreenCollection(1, MaxLigands)>>),
          Quiet({CleanFile}, {"success", "timeout"})),
      \* three replicas of one ligand, with scores that differ
      Run(MainConfig(VCpus, OneScenario(3, 1), 0, 0, TRUE,
                     Collections(1, 1, "s3", AllMatch)),
          Scored({CleanFile}, {1, 2})),
      \* an archive without ligands, and one whose ligand can be skipped
      Run(MainConfig(VCpus, OneScenario(1, 1), 0, 0, TRUE,
                     <<Collection(1, "s3", "full", TRUE, 0),
                       Collection(2, "s3", "full", TRUE, 1)>>),
          Quiet({CleanFile, BannedFile}, {"success"})),
      \* a backend whose end function sets no reason
      Run(MainConfig(VCpus, <<Scenario("s1", "plants", 1, 2)>>, 0, 0, TRUE,
                     Collections(1, MaxLigands, "s3", AllMatch)),
          Quiet({CleanFile}, {"success", "no score"})),
      \* a backend whose end function cannot be called
      Run(MainConfig(VCpus, <<Scenario("s1", "CovDock", 1, 2)>>, 0, 0, TRUE,
                     Collections(1, MaxLigands, "s3", AllMatch)),
          Quiet({CleanFile}, {"success", "timeout"})),
      \* invocations that cannot be started
      Run(MainConfig(VCpus, OneScenario(1, 2), 0, 0, TRUE,
                     Collections(1, MaxLigands, "s3", AllMatch)),
          Quiet({CleanFile}, {"success", "start raises"})),
      \* ligand files that violate more than one check
      Run(MainConfig(VCpus, OneScenario(1, 1), 0, 1, TRUE,
                     Collections(1, 1, "s3", AllMatch)),
          Quiet({DuplicateThenBannedFile, BannedDuplicateLineFile,
                 TrancheThenDuplicateFile}, {"success"})),
      \* a collection that names its ligands
      Run(MainConfig(VCpus, OneScenario(1, 1), 0, 0, TRUE,
                     <<NamedCollection(1, MaxLigands)>>),
          Quiet({CleanFile}, {"success"})),
      \* a collection that names a ligand its archive does not hold
      Run(MainConfig(VCpus, OneScenario(1, 1), 0, 0, TRUE,
                     <<NamedAbsentCollection(1, MaxLigands)>>),
          Quiet({CleanFile}, {"success"})),
      \* a collection whose name does not match the regex, before one whose
      \* name matches
      Run(MainConfig(VCpus, OneScenario(1, 1), 0, 1, TRUE,
                     Collections(MaxCollections + 1, 1, "s3", AllButLastOfBound)),
          Quiet({TrancheMatchFile}, {"success"})),
      \* an invalid regex, met after ligands without tranche annotation
      Run(MainConfig(VCpus, OneScenario(1, 1), 1, 1, FALSE,
                     Collections(1, MaxLigands, "s3", AllMatch)),
          Quiet({CleanFile, TrancheMatchFile}, {"success"})) }
    \cup
    \* dynamic tranche filtering, with and without prescreen mode, with a
    \* valid and an invalid regex
    { Run(MainConfig(VCpus, OneScenario(1, 1), pm, 1, rv,
                     Collections(MaxCollections, 1, "s3", FirstOnlyMatch)),
          Quiet({TrancheMatchFile, TrancheNoMatchFile}, {"success"})) :
      pm \in {0, 1}, rv \in BOOLEAN }

(* The runs that are explored for ligand files of the same name in two     *)
(* archives: one ligand each, with one replica and scores that differ; and  *)
(* one collection whose ligands pass all the stages.                        *)
SameNameRuns ==
    { Run(MainConfig(VCpus, OneScenario(1, 1), 0, 0, TRUE, SameNameCollections(1)),
          Scored({CleanFile}, {1, 2})),
      Run(MainConfig(VCpus, OneScenario(1, 2), 0, 0, TRUE,
                     Collections(1, MaxLigands, "s3", AllMatch)),
          Quiet({CleanFile, DuplicateFile}, {"success", "timeout"})) }

(* The runs that are explored for the backpressure of the stages: more     *)
(* archives than the collection queue takes below its high-water mark,      *)
(* with a Validator that leaves at the first ligand it scans; and one       *)
(* collection whose ligands pass all the stages.                            *)
BackpressureRuns ==
    { Run(MainConfig(VCpus, OneScenario(1, 1), 1, 1, FALSE,
                     Collections(ManyCollections, 1, "s3",
                                 [i \in 1..ManyCollections |-> TRUE])),
          Quiet({TrancheMatchFile}, {"success"})),
      Run(MainConfig(VCpus, OneScenario(1, 2), 0, 0, TRUE,
                     Collections(1, MaxLigands, "s3", AllMatch)),
          Quiet({CleanFile, DuplicateFile}, {"success", "timeout"})) }

Ceil(a, b) == (a + b - 1) \div b

NumWorkers(c) ==
    [downloader_processes |-> Ceil(c.vcpus_to_use, VCpusPerWorker),
     unpacker_processes |-> Ceil(c.vcpus_to_use, VCpusPerWorker),
     collection_processes |-> Ceil(c.vcpus_to_use, VCpusPerWorker),
     docking_processes |-> c.vcpus_to_use,
     summary_processes |-> 1,
     uploader_processes |-> NumUploaders]

(* The queue a stage reads and the pool that reads it, in pipeline order.   *)
StageQueue ==
    <<"download_queue", "unpack_queue", "collection_queue",
      "docking_queue", "summary_queue", "upload_queue">>
StagePool ==
    <<"downloader_processes", "unpacker_processes", "collection_processes",
      "docking_processes", "summary_processes", "uploader_processes">>

----------------------------------------------------------------------------
(* Worker processes.  pc is the position in the worker's loop; a worker     *)
(* that left its loop is "exited" (exit code 0), one that died of an        *)
(* uncaught exception is "crashed" (exit code 1), one the driver killed is  *)
(* "killed".  cause records why it left.                                    *)

Terminated(p) == p.pc \in {"exited", "crashed", "killed"}
ExitCode(p) == IF p.pc = "exited" THEN 0 ELSE 1

Exit(p, why) == [p EXCEPT !.pc = "exited", !.cause = why]
Crash(p, why) == [p EXCEPT !.pc = "crashed", !.cause = why]

NewWorker(pool) ==
    CASE pool \in {"downloader_processes", "unpacker_processes"} ->
            [pc |-> "get", cause |-> "", item |-> None]
      [] pool = "collection_processes" ->
            [pc |-> "get", cause |-> "", item |-> None, i |-> 0, t |-> 0,
             expected_ligands |-> 0]
      [] pool = "docking_processes" ->
            [pc |-> "get", cause |-> "", items_queue |-> <<>>, todo |-> <<>>,
             batched_item |-> None, cont |-> "get"]
      [] OTHER -> [pc |-> "get", cause |-> ""]

(* The state after process() has made the queues and started the pools,    *)
(* for one of the given runs.                                               *)
InitOf(runs) ==
    /\ \E run \in runs : ctx = run.ctx /\ env = run.env
    /\ driver = [pc |-> "enqueue", i |-> 1, stage |-> 1, n |-> 0]
    /\ queue = [q \in Range(StageQueue) |-> <<>>]
    /\ processes = [pool \in Range(StagePool) |->
                       [w \in 1..NumWorkers(ctx)[pool] |-> NewWorker(pool)]]
    /\ overview_data = [total_dockings |-> 0,
                        dockings_status |-> [success |-> 0, failed |-> 0],
                        skipped_ligands |-> 0, skipped_ligand_list |-> <<>>,
                        failed_list |-> <<>>, failed_downloads |-> 0,
                        failed_downloads_log |-> <<>>,
                        failed_downloads_dockings |-> 0]
    /\ summary_data = [sk \in {ctx.docking_scenarios[j].key :
                                  j \in DOMAIN ctx.docking_scenarios} |-> <<>>]
    /\ dockings_processed = 0
    /\ collection_completions = <<>>
    /\ scratch = [k \in DOMAIN ctx.collections |-> "absent"]
    /\ uploaded = [transferred |-> {}, temp_dir |-> <<>>]
    /\ hist = [dispatched |-> <<>>, skipped |-> <<>>, markers |-> <<>>,
               archived |-> <<>>, handled |-> <<>>, all_running |-> <<>>,
               fetch_failed |-> <<>>, scanned |-> <<>>]

Init == InitOf(Runs)

BackpressureInit == InitOf(BackpressureRuns)

SameNameInit == InitOf(SameNameRuns)

----------------------------------------------------------------------------
(* The driver: process() and flush_queue().                                 *)

Put(q, item) == [queue EXCEPT ![q] = Append(@, item)]

(* process(): one iteration of the loop over subjob['collections'].  With   *)
(* dynamic tranche filtering on and prescreen mode off, an invalid regex    *)
(* makes process() return and the first collection name that does not       *)
(* match ends the loop.  The iteration ends with the wait                   *)
(* while download_queue.qsize() > 25, which is the guard of the step that   *)
(* follows a put.                                                           *)
(* Mutant: a collection whose name does not match is passed over and the    *)
(* loop goes on with the next.                                              *)
DriverEnqueue_Continues ==
    /\ driver.pc = "enqueue"
    /\ driver.i > 1 => Len(queue.download_queue) <= DownloadHighWater
    /\ LET cols == ctx.collections
           filter == ctx.prescreen_mode = 0 /\ ctx.dynamic_tranche_filtering = 1
       IN  IF driver.i > Len(cols)
           THEN /\ driver' = [driver EXCEPT !.pc = "flush_send"]
                /\ UNCHANGED queue
           ELSE IF filter /\ ~ctx.regex_valid
           THEN /\ driver' = [driver EXCEPT !.pc = "returned"]
                /\ UNCHANGED queue
           ELSE IF filter /\ ~cols[driver.i].name_match
           THEN /\ driver' = [driver EXCEPT !.i = @ + 1]
                /\ UNCHANGED queue
           ELSE /\ queue' = Put("download_queue",
                                [type |-> "item",
                                 collection_key |-> cols[driver.i].collection_key,
                                 collection |-> cols[driver.i],
                                 ligands |-> <<>>, ligands_none |-> FALSE])
                /\ driver' = [driver EXCEPT !.i = @ + 1]
    /\ UNCHANGED <<ctx, env, processes, aggregator, scratch, uploaded, hist>>

DriverEnqueue ==
    /\ driver.pc = "enqueue"
    /\ driver.i > 1 => Len(queue.download_queue) <= DownloadHighWater
    /\ LET cols == ctx.collections
           filter == ctx.prescreen_mode = 0 /\ ctx.dynamic_tranche_filtering = 1
       IN  IF driver.i > Len(cols)
           THEN /\ driver' = [driver EXCEPT !.pc = "flush_send"]
                /\ UNCHANGED queue
           ELSE IF filter /\ ~ctx.regex_valid
           THEN /\ driver' = [driver EXCEPT !.pc = "returned"]
                /\ UNCHANGED queue
           ELSE IF filter /\ ~cols[driver.i].name_match
           THEN /\ driver' = [driver EXCEPT !.pc = "flush_send"]
                /\ UNCHANGED queue
           ELSE /\ queue' = Put("download_queue",
                                [type |-> "item",
                                 collection_key |-> cols[driver.i].collection_key,
                                 collection |-> cols[driver.i],
                                 ligands |-> <<>>, ligands_none |-> FALSE])
                /\ driver' = [driver EXCEPT !.i = @ + 1]
    /\ UNCHANGED <<ctx, env, processes, aggregator, scratch, uploaded, hist>>

(* Mutant: one sentinel more than the stage has workers.                    *)
DriverFlushSend_OneTooMany ==
    /\ driver.pc = "flush_send"
    /\ LET pool == StagePool[driver.stage]
           last == driver.n = Len(processes[pool])
       IN  /\ queue' = Put(StageQueue[driver.stage], None)
           /\ driver' = IF last
                        THEN [driver EXCEPT !.pc = "flush_join", !.n = 0]
                        ELSE [driver EXCEPT !.n = @ + 1]
           /\ hist' = IF last
                      THEN [hist EXCEPT !.all_running = Append(@,
                              \A w \in DOMAIN processes[pool] :
                                  ~Terminated(processes[pool][w]))]
                      ELSE hist
    /\ UNCHANGED <<ctx, env, processes, aggregator, scratch, uploaded>>

(* flush_queue(): for process in processes: queue.put(None).  With the last *)
(* sentinel of a stage hist.all_running notes whether every worker of the   *)
(* stage is still running.                                                  *)
DriverFlushSend ==
    /\ driver.pc = "flush_send"
    /\ LET pool == StagePool[driver.stage]
           last == driver.n + 1 = Len(processes[pool])
       IN  /\ queue' = Put(StageQueue[driver.stage], None)
           /\ driver' = IF last
                        THEN [driver EXCEPT !.pc = "flush_join", !.n = 0]
                        ELSE [driver EXCEPT !.n = @ + 1]
           /\ hist' = IF last
                      THEN [hist EXCEPT !.all_running = Append(@,
                              \A w \in DOMAIN processes[pool] :
                                  ~Terminated(processes[pool][w]))]
                      ELSE hist
    /\ UNCHANGED <<ctx, env, processes, aggregator, scratch, uploaded>>

(* Mutant: only the workers of the stage being joined are killed.           *)
KillAll_StageOnly ==
    [pool \in DOMAIN processes |->
        [w \in DOMAIN processes[pool] |->
            IF Terminated(processes[pool][w]) \/ pool # StagePool[driver.stage]
            THEN processes[pool][w]
            ELSE [processes[pool][w] EXCEPT !.pc = "killed",
                                            !.cause = "killed"]]]

(* process(): except Exception: kill every process, sys.exit(1)             *)
KillAll ==
    [pool \in DOMAIN processes |->
        [w \in DOMAIN processes[pool] |->
            IF Terminated(processes[pool][w]) THEN processes[pool][w]
            ELSE [processes[pool][w] EXCEPT !.pc = "killed",
                                            !.cause = "killed"]]]

(* Mutant: the driver does not wait for the worker it joins.                *)
DriverFlushJoin_NoWait ==
    /\ driver.pc = "flush_join"
    /\ LET pool == StagePool[driver.stage]
           p == processes[pool][driver.n + 1]
           last == driver.n + 1 = Len(processes[pool])
       IN  /\ IF Terminated(p) /\ ExitCode(p) # 0
              THEN /\ processes' = KillAll
                   /\ driver' = [driver EXCEPT !.pc = "failed"]
              ELSE /\ UNCHANGED processes
                   /\ driver' =
                        IF ~last THEN [driver EXCEPT !.n = @ + 1]
                        ELSE IF driver.stage = Len(StagePool)
                        THEN [driver EXCEPT !.pc = "done", !.n = 0]
                        ELSE [driver EXCEPT !.pc = "flush_send", !.n = 0,
                                            !.stage = @ + 1]
    /\ UNCHANGED <<ctx, env, queue, aggregator, scratch, uploaded, hist>>

(* flush_queue(): process.join(); a non-zero exitcode raises RuntimeError,  *)
(* which process() catches.  After the last join of the last stage          *)
(* process() returns.                                                       *)
DriverFlushJoin ==
    /\ driver.pc = "flush_join"
    /\ LET pool == StagePool[driver.stage]
           p == processes[pool][driver.n + 1]
           last == driver.n + 1 = Len(processes[pool])
       IN  /\ Terminated(p)
           /\ IF ExitCode(p) # 0
              THEN /\ processes' = KillAll
                   /\ driver' = [driver EXCEPT !.pc = "failed"]
              ELSE /\ UNCHANGED processes
                   /\ driver' =
                        IF ~last THEN [driver EXCEPT !.n = @ + 1]
                        ELSE IF driver.stage = Len(StagePool)
                        THEN [driver EXCEPT !.pc = "done", !.n = 0]
                        ELSE [driver EXCEPT !.pc = "flush_send", !.n = 0,
                                            !.stage = @ + 1]
    /\ UNCHANGED <<ctx, env, queue, aggregator, scratch, uploaded, hist>>

----------------------------------------------------------------------------
(* The Downloader: downloader().                                            *)

Get(q) == Head(queue[q])
Worker(pool, w) == processes[pool][w]
SetWorker(pool, w, p) == [processes EXCEPT ![pool][w] = p]

(* One queue.get() and the fetch.  The outcome of the transfer is an input; *)
(* hist.fetch_failed notes the collections whose fetch failed.              *)
(* A botocore ClientError is caught and reported; shutil.copyfile is not in *)
(* a try block, so its exception ends the worker.                           *)
DownloaderGet(w) ==
    LET p == Worker("downloader_processes", w)
        item == Get("download_queue")
        rest == [queue EXCEPT !.download_queue = Tail(@)]
    IN  /\ p.pc = "get"
        /\ queue.download_queue # <<>>
        /\ IF item.type = "None"
           THEN /\ processes' = SetWorker("downloader_processes", w,
                                          Exit(p, "sentinel"))
                /\ queue' = rest
                /\ UNCHANGED <<scratch, hist>>
           ELSE /\ scratch' = [scratch EXCEPT ![item.collection_key] = "present"]
                /\ \E ok \in {TRUE} \cup {~env.fetch_fails} :
                     /\ hist' = IF ok THEN hist
                                ELSE [hist EXCEPT !.fetch_failed =
                                         Append(@, item.collection_key)]
                     /\ IF ok
                        THEN /\ processes' = SetWorker("downloader_processes", w,
                                    [p EXCEPT !.pc = "wait", !.item = item])
                             /\ queue' = rest
                        ELSE IF item.collection.storage = "s3"
                        THEN /\ queue' = [rest EXCEPT !.summary_queue = Append(@,
                                    [type |-> "download_failed",
                                     log |-> [base_collection_key |-> item.collection_key,
                                              reason |-> "Failed to download from S3",
                                              dockings |-> item.collection.dockings]])]
                             /\ UNCHANGED processes
                        ELSE /\ processes' = SetWorker("downloader_processes", w,
                                    Crash(p, "copyfile"))
                             /\ queue' = rest
        /\ UNCHANGED <<ctx, env, driver, aggregator, uploaded>>

(* while unpack_queue.qsize() > 35: time.sleep(0.2)                         *)
(* Mutant: the Downloader goes on above the high-water mark, too.           *)
DownloaderWait_AnyDepth(w) ==
    LET p == Worker("downloader_processes", w)
    IN  /\ p.pc = "wait"
        /\ processes' = SetWorker("downloader_processes", w, [p EXCEPT !.pc = "put"])
        /\ UNCHANGED <<ctx, env, driver, queue, aggregator, scratch, uploaded, hist>>

DownloaderWait(w) ==
    LET p == Worker("downloader_processes", w)
    IN  /\ p.pc = "wait"
        /\ Len(queue.unpack_queue) <= UnpackHighWater
        /\ processes' = SetWorker("downloader_processes", w, [p EXCEPT !.pc = "put"])
        /\ UNCHANGED <<ctx, env, driver, queue, aggregator, scratch, uploaded, hist>>

(* unpack_queue.put(item)                                                   *)
DownloaderPut(w) ==
    LET p == Worker("downloader_processes", w)
    IN  /\ p.pc = "put"
        /\ queue' = Put("unpack_queue", p.item)
        /\ processes' = SetWorker("downloader_processes", w,
                                  [p EXCEPT !.pc = "get", !.item = None])
        /\ UNCHANGED <<ctx, env, driver, aggregator, scratch, uploaded, hist>>

----------------------------------------------------------------------------
(* The Unpacker: untar() and unpack_item().                                 *)

(* The archives a download can have fetched for an item: readable or not.   *)
(* The members are the '.listing' and the ligand files.                     *)
Archives(item) ==
    { [ok |-> ok,
       members |-> <<Listing>> \o [j \in 1..item.collection.capacity |->
                                      LigandName(item.collection.names, j)]] :
      ok \in {TRUE} \cup {~env.corrupt} }

(* The loop over tar.getmembers(): the names of the members other than      *)
(* '.listing', in the order of the archive.                                 *)
LigandMembers(archive) ==
    SelectSeq(archive.members, LAMBDA member : member # Listing)

(* ligands[name] raises KeyError: the mode looks up a name that is not a    *)
(* member of the archive.                                                   *)
KeyError(item, archive) ==
    LET names == Range(LigandMembers(archive))
        c == item.collection
    IN  \/ /\ c.mode = "prescreen_mode"
           /\ \E n \in DOMAIN c.listing :
                 /\ c.listing[n].screen_index < c.prescreen_ligands_per_tranche
                 /\ c.listing[n].screen_ligand_name \notin names
        \/ /\ c.mode = "named"
           /\ \E n \in DOMAIN c.ligands : c.ligands[n] \notin names

(* ligands[name] of a dictionary held as the sequence of its values in      *)
(* insertion order.                                                         *)
Lookup(ligands, name) ==
    ligands[CHOOSE j \in DOMAIN ligands : ligands[j].ligand_key = name]

(* d[rec.ligand_key] = rec: a new key is appended, a key already in the     *)
(* dictionary keeps its place and takes the new value.                      *)
Store(d, rec) ==
    IF \E j \in DOMAIN d : d[j].ligand_key = rec.ligand_key
    THEN [j \in DOMAIN d |->
            IF d[j].ligand_key = rec.ligand_key THEN rec ELSE d[j]]
    ELSE Append(d, rec)

(* The loop over the first n rows of the '.listing' file: a row whose       *)
(* screen index is at or above the cutoff is passed over; the ligand of     *)
(* any other row is kept, with the collection key of the row.               *)
RECURSIVE prescreen_ligands(_, _, _)
prescreen_ligands(item, ligands, n) ==
    IF n = 0 THEN <<>>
    ELSE LET row == item.collection.listing[n]
             prev == prescreen_ligands(item, ligands, n - 1)
         IN  IF row.screen_index >= item.collection.prescreen_ligands_per_tranche
             THEN prev
             ELSE Store(prev, [Lookup(ligands, row.screen_ligand_name) EXCEPT
                                  !.collection_key = row.screen_collection_key])

(* The loop over the first n names of the mode named.                       *)
RECURSIVE select_ligands(_, _, _)
select_ligands(item, ligands, n) ==
    IF n = 0 THEN <<>>
    ELSE Store(select_ligands(item, ligands, n - 1),
               Lookup(ligands, item.collection.ligands[n]))

(* unpack_item(): the ligands dictionary in insertion order, or None when   *)
(* the archive cannot be opened.                                            *)
unpack_item_BaseReplaced(item, archive) ==
    IF ~archive.ok
    THEN [item EXCEPT !.ligands = <<>>, !.ligands_none = TRUE]
    ELSE LET ligands == [j \in DOMAIN LigandMembers(archive) |->
                            [ligand_key |-> LigandMembers(archive)[j],
                             base_collection_key |-> item.collection_key,
                             collection_key |-> item.collection_key]]
             kept == prescreen_ligands(item, ligands,
                                       Len(item.collection.listing))
         IN  [item EXCEPT !.ligands =
                IF item.collection.mode = "prescreen_mode"
                THEN [j \in DOMAIN kept |->
                        [kept[j] EXCEPT
                            !.base_collection_key = kept[j].collection_key]]
                ELSE IF item.collection.mode = "named"
                THEN select_ligands(item, ligands, Len(item.collection.ligands))
                ELSE ligands]

unpack_item(item, archive) ==
    IF ~archive.ok
    THEN [item EXCEPT !.ligands = <<>>, !.ligands_none = TRUE]
    ELSE LET ligands == [j \in DOMAIN LigandMembers(archive) |->
                            [ligand_key |-> LigandMembers(archive)[j],
                             base_collection_key |-> item.collection_key,
                             collection_key |-> item.collection_key]]
         IN  [item EXCEPT !.ligands =
                IF item.collection.mode = "prescreen_mode"
                THEN prescreen_ligands(item, ligands,
                                       Len(item.collection.listing))
                ELSE IF item.collection.mode = "named"
                THEN select_ligands(item, ligands, Len(item.collection.ligands))
                ELSE ligands]

(* Mutant: the Unpacker inserts without a look at the collection queue.     *)
UnpackerGet_WithoutLooking(w) ==
    LET p == Worker("unpacker_processes", w)
        item == Get("unpack_queue")
    IN  /\ p.pc = "get"
        /\ queue.unpack_queue # <<>>
        /\ queue' = [queue EXCEPT !.unpack_queue = Tail(@)]
        /\ IF item.type = "None"
           THEN processes' = SetWorker("unpacker_processes", w, Exit(p, "sentinel"))
           ELSE \E archive \in Archives(item) :
                    processes' = SetWorker("unpacker_processes", w,
                        IF archive.ok /\ KeyError(item, archive)
                        THEN Crash(p, "KeyError")
                        ELSE [p EXCEPT !.pc = "put",
                                       !.item = unpack_item(item, archive)])
        /\ UNCHANGED <<ctx, env, driver, aggregator, scratch, uploaded, hist>>

UnpackerGet(w) ==
    LET p == Worker("unpacker_processes", w)
        item == Get("unpack_queue")
    IN  /\ p.pc = "get"
        /\ queue.unpack_queue # <<>>
        /\ queue' = [queue EXCEPT !.unpack_queue = Tail(@)]
        /\ IF item.type = "None"
           THEN processes' = SetWorker("unpacker_processes", w, Exit(p, "sentinel"))
           ELSE \E archive \in Archives(item) :
                    processes' = SetWorker("unpacker_processes", w,
                        IF archive.ok /\ KeyError(item, archive)
                        THEN Crash(p, "KeyError")
                        ELSE [p EXCEPT !.pc = "wait",
                                       !.item = unpack_item(item, archive)])
        /\ UNCHANGED <<ctx, env, driver, aggregator, scratch, uploaded, hist>>

(* while collection_queue.qsize() > 35: time.sleep(0.2)                     *)
UnpackerWait(w) ==
    LET p == Worker("unpacker_processes", w)
    IN  /\ p.pc = "wait"
        /\ Len(queue.collection_queue) <= CollectionHighWater
        /\ processes' = SetWorker("unpacker_processes", w, [p EXCEPT !.pc = "put"])
        /\ UNCHANGED <<ctx, env, driver, queue, aggregator, scratch, uploaded, hist>>

(* collection_queue.put(item)                                               *)
UnpackerPut(w) ==
    LET p == Worker("unpacker_processes", w)
    IN  /\ p.pc = "put"
        /\ queue' = Put("collection_queue", p.item)
        /\ processes' = SetWorker("unpacker_processes", w,
                                  [p EXCEPT !.pc = "get", !.item = None])
        /\ UNCHANGED <<ctx, env, driver, aggregator, scratch, uploaded, hist>>

----------------------------------------------------------------------------
(* The Validator: collection_process() and submit_ligand_for_docking().     *)

(* The line scan of collection_process(): "ok", the skip_reason_json of the *)
(* first failing check, or "invalid regex" when re.compile raises.          *)
(* Mutant: the coordinates of ATOM lines are not compared.                  *)
RECURSIVE ScanLines_NoDuplicateCheck(_, _, _, _)
ScanLines_NoDuplicateCheck(c, file, idx, coords) ==
    IF idx > Len(file) THEN "ok"
    ELSE LET line == file[idx]
         IN  IF c.run_atom_check = 1 /\ line.banned
             THEN "ligand includes elements"
             ELSE IF c.dynamic_tranche_filtering = 1 /\ line.tranche # "none"
             THEN IF ~c.regex_valid THEN "invalid regex"
                  ELSE IF line.tranche = "nomatch" THEN "dynamic tranche filtering"
                  ELSE ScanLines_NoDuplicateCheck(c, file, idx + 1, coords)
             ELSE ScanLines_NoDuplicateCheck(c, file, idx + 1, coords)

(* Mutant: a line is checked for duplicate coordinates before it is checked *)
(* for banned elements.                                                     *)
RECURSIVE ScanLines_DuplicateFirst(_, _, _, _)
ScanLines_DuplicateFirst(c, file, idx, coords) ==
    IF idx > Len(file) THEN "ok"
    ELSE LET line == file[idx]
             seen == IF line.atom # 0 THEN coords \cup {line.atom} ELSE coords
         IN  IF line.atom # 0 /\ line.atom \in coords
             THEN "duplicate coordinates"
             ELSE IF c.run_atom_check = 1 /\ line.banned
             THEN "ligand includes elements"
             ELSE IF c.dynamic_tranche_filtering = 1 /\ line.tranche # "none"
             THEN IF ~c.regex_valid THEN "invalid regex"
                  ELSE IF line.tranche = "nomatch" THEN "dynamic tranche filtering"
                  ELSE ScanLines_DuplicateFirst(c, file, idx + 1, seen)
             ELSE ScanLines_DuplicateFirst(c, file, idx + 1, seen)

RECURSIVE ScanLines(_, _, _, _)
ScanLines(c, file, idx, coords) ==
    IF idx > Len(file) THEN "ok"
    ELSE LET line == file[idx]
             seen == IF line.atom # 0 THEN coords \cup {line.atom} ELSE coords
         IN  IF c.run_atom_check = 1 /\ line.banned
             THEN "ligand includes elements"
             ELSE IF line.atom # 0 /\ line.atom \in coords
             THEN "duplicate coordinates"
             ELSE IF c.dynamic_tranche_filtering = 1 /\ line.tranche # "none"
             THEN IF ~c.regex_valid THEN "invalid regex"
                  ELSE IF line.tranche = "nomatch" THEN "dynamic tranche filtering"
                  ELSE ScanLines(c, file, idx + 1, seen)
             ELSE ScanLines(c, file, idx + 1, seen)

ScanLigand(c, file) == ScanLines(c, file, 1, {})

(* for scenario_key ...: for replica_index in range(scenario['replicas']):  *)
(*     completions_per_ligand += 1                                          *)
completions_per_ligand(c) ==
    SumSeq([j \in DOMAIN c.docking_scenarios |-> c.docking_scenarios[j].replicas])

(* Mutant: one docking item per scenario, whatever its replicas.            *)
DockingItems_OneReplica(c, ligand, j) ==
    [n \in 1..(Len(c.docking_scenarios) - j + 1) |->
        [type |-> "docking_item",
         ligand_key |-> ligand.ligand_key,
         scenario_key |-> c.docking_scenarios[j + n - 1].key,
         collection_key |-> ligand.collection_key,
         base_collection_key |-> ligand.base_collection_key,
         program |-> c.docking_scenarios[j + n - 1].program,
         replica_index |-> 0,
         attrs |-> <<ligand.base_collection_key, ligand.ligand_key>>,
         status |-> "", reason |-> "", score |-> 0, tmp_run_dir |-> ""]]

(* The docking items submit_ligand_for_docking() puts for one ligand, in    *)
(* the order it puts them: scenario by scenario, replica by replica.  attrs *)
(* are the attributes get_attrs() has read from the file of the ligand,     *)
(* which are the file's own.                                                *)
RECURSIVE DockingItems(_, _, _)
DockingItems(c, ligand, j) ==
    IF j > Len(c.docking_scenarios) THEN <<>>
    ELSE LET sc == c.docking_scenarios[j]
         IN  [r \in 1..sc.replicas |->
                [type |-> "docking_item",
                 ligand_key |-> ligand.ligand_key,
                 scenario_key |-> sc.key,
                 collection_key |-> ligand.collection_key,
                 base_collection_key |-> ligand.base_collection_key,
                 program |-> sc.program,
                 replica_index |-> r - 1,
                 attrs |-> <<ligand.base_collection_key, ligand.ligand_key>>,
                 status |-> "", reason |-> "", score |-> 0, tmp_run_dir |-> ""]]
             \o DockingItems(c, ligand, j + 1)

(* One collection_queue.get().  item['ligands'] is None after a failed      *)
(* unpack, and iterating over it raises TypeError.                          *)
ValidatorGet(w) ==
    LET p == Worker("collection_processes", w)
        item == Get("collection_queue")
    IN  /\ p.pc = "get"
        /\ queue.collection_queue # <<>>
        /\ queue' = [queue EXCEPT !.collection_queue = Tail(@)]
        /\ processes' = SetWorker("collection_processes", w,
              IF item.type = "None" THEN Exit(p, "sentinel")
              ELSE IF item.ligands_none
                   THEN Crash([p EXCEPT !.item = item], "ligands is None")
              ELSE [p EXCEPT !.pc = "scan", !.item = item, !.i = 1,
                             !.expected_ligands = 0])
        /\ UNCHANGED <<ctx, env, driver, aggregator, scratch, uploaded, hist>>

(* Mutant: a Validator that meets an invalid regex puts the marker of its   *)
(* collection before it returns.                                            *)
ValidatorScan_MarkerBeforeReturn(w) ==
    LET p == Worker("collection_processes", w)
        marker == [type |-> "delete",
                   temp_dir |-> p.item.collection_key,
                   base_collection_key |-> p.item.collection_key,
                   expected_completions |-> p.expected_ligands]
    IN  /\ p.pc = "scan"
        /\ p.i <= Len(p.item.ligands)
        /\ \E file \in env.files :
             LET ligand == p.item.ligands[p.i]
                 verdict == ScanLigand(ctx, file)
             IN  IF verdict = "ok"
                 THEN /\ processes' = SetWorker("collection_processes", w,
                             [p EXCEPT !.pc = "submit", !.t = 1])
                      /\ UNCHANGED <<queue, hist>>
                 ELSE IF verdict = "invalid regex"
                 THEN /\ processes' = SetWorker("collection_processes", w,
                             Exit(p, "invalid regex"))
                      /\ queue' = Put("summary_queue", marker)
                      /\ hist' = [hist EXCEPT !.markers = Append(@, marker)]
                 ELSE /\ queue' = Put("summary_queue",
                             [type |-> "skip",
                              log |-> [base_collection_key |-> ligand.base_collection_key,
                                       collection_key |-> ligand.collection_key,
                                       ligand_key |-> ligand.ligand_key,
                                       reason |-> verdict]])
                      /\ hist' = [hist EXCEPT
                             !.skipped = Append(@, ligand.ligand_key),
                             !.scanned = Append(@, [ligand_key |-> ligand.ligand_key,
                                                    file |-> file,
                                                    reason |-> verdict])]
                      /\ processes' = SetWorker("collection_processes", w,
                             [p EXCEPT !.i = @ + 1])
        /\ UNCHANGED <<ctx, env, driver, aggregator, scratch, uploaded>>

(* Mutant: a ligand that fails a check gets its skip event and is submitted *)
(* for docking all the same.                                                *)
ValidatorScan_SubmitsSkipped(w) ==
    LET p == Worker("collection_processes", w)
    IN  /\ p.pc = "scan"
        /\ p.i <= Len(p.item.ligands)
        /\ \E file \in env.files :
             LET ligand == p.item.ligands[p.i]
                 verdict == ScanLigand(ctx, file)
             IN  IF verdict = "ok"
                 THEN /\ processes' = SetWorker("collection_processes", w,
                             [p EXCEPT !.pc = "submit", !.t = 1])
                      /\ UNCHANGED <<queue, hist>>
                 ELSE IF verdict = "invalid regex"
                 THEN /\ processes' = SetWorker("collection_processes", w,
                             Exit(p, "invalid regex"))
                      /\ UNCHANGED <<queue, hist>>
                 ELSE /\ queue' = Put("summary_queue",
                             [type |-> "skip",
                              log |-> [base_collection_key |-> ligand.base_collection_key,
                                       collection_key |-> ligand.collection_key,
                                       ligand_key |-> ligand.ligand_key,
                                       reason |-> verdict]])
                      /\ hist' = [hist EXCEPT
                             !.skipped = Append(@, ligand.ligand_key),
                             !.scanned = Append(@, [ligand_key |-> ligand.ligand_key,
                                                    file |-> file,
                                                    reason |-> verdict])]
                      /\ processes' = SetWorker("collection_processes", w,
                             [p EXCEPT !.pc = "submit", !.t = 1])
        /\ UNCHANGED <<ctx, env, driver, aggregator, scratch, uploaded>>

(* The scan of the next ligand file, whose content is an input.  A ligand   *)
(* that fails a check gets a skip event; an invalid regex ends the worker   *)
(* (return None); a ligand that passes goes to submit_ligand_for_docking(). *)
ValidatorScan(w) ==
    LET p == Worker("collection_processes", w)
    IN  /\ p.pc = "scan"
        /\ p.i <= Len(p.item.ligands)
        /\ \E file \in env.files :
             LET ligand == p.item.ligands[p.i]
                 verdict == ScanLigand(ctx, file)
             IN  IF verdict = "ok"
                 THEN /\ processes' = SetWorker("collection_processes", w,
                             [p EXCEPT !.pc = "submit", !.t = 1])
                      /\ UNCHANGED <<queue, hist>>
                 ELSE IF verdict = "invalid regex"
                 THEN /\ processes' = SetWorker("collection_processes", w,
                             Exit(p, "invalid regex"))
                      /\ UNCHANGED <<queue, hist>>
                 ELSE /\ queue' = Put("summary_queue",
                             [type |-> "skip",
                              log |-> [base_collection_key |-> ligand.base_collection_key,
                                       collection_key |-> ligand.collection_key,
                                       ligand_key |-> ligand.ligand_key,
                                       reason |-> verdict]])
                      /\ hist' = [hist EXCEPT
                             !.skipped = Append(@, ligand.ligand_key),
                             !.scanned = Append(@, [ligand_key |-> ligand.ligand_key,
                                                    file |-> file,
                                                    reason |-> verdict])]
                      /\ processes' = SetWorker("collection_processes", w,
                             [p EXCEPT !.i = @ + 1])
        /\ UNCHANGED <<ctx, env, driver, aggregator, scratch, uploaded>>

(* submit_ligand_for_docking(): one docking_queue.put(docking_item).        *)
ValidatorSubmit(w) ==
    LET p == Worker("collection_processes", w)
        items == DockingItems(ctx, p.item.ligands[p.i], 1)
    IN  /\ p.pc = "submit"
        /\ queue' = Put("docking_queue", items[p.t])
        /\ hist' = [hist EXCEPT !.dispatched = Append(@, items[p.t])]
        /\ processes' = SetWorker("collection_processes", w,
              [p EXCEPT !.t = @ + 1,
                        !.pc = IF p.t = Len(items) THEN "submit_wait" ELSE "submit"])
        /\ UNCHANGED <<ctx, env, driver, aggregator, scratch, uploaded>>

(* Mutant: the expected count grows by one for a ligand, whatever the       *)
(* number of its tasks.                                                     *)
ValidatorSubmitWait_CountsLigands(w) ==
    LET p == Worker("collection_processes", w)
    IN  /\ p.pc = "submit_wait"
        /\ Len(queue.docking_queue) <= DockingHighWater
        /\ processes' = SetWorker("collection_processes", w,
              [p EXCEPT !.pc = "scan", !.i = @ + 1,
                        !.expected_ligands = @ + 1])
        /\ UNCHANGED <<ctx, env, driver, queue, aggregator, scratch, uploaded, hist>>

(* submit_ligand_for_docking(): while docking_queue.qsize() > 100; then     *)
(* collection_process(): expected_ligands += completions_per_ligand         *)
ValidatorSubmitWait(w) ==
    LET p == Worker("collection_processes", w)
    IN  /\ p.pc = "submit_wait"
        /\ Len(queue.docking_queue) <= DockingHighWater
        /\ processes' = SetWorker("collection_processes", w,
              [p EXCEPT !.pc = "scan", !.i = @ + 1,
                        !.expected_ligands = @ + completions_per_ligand(ctx)])
        /\ UNCHANGED <<ctx, env, driver, queue, aggregator, scratch, uploaded, hist>>

(* After the last ligand: the delete marker of the collection.              *)
delete_marker(p) ==
    [type |-> "delete", temp_dir |-> p.item.collection_key,
     base_collection_key |-> p.item.collection_key,
     expected_completions |-> p.expected_ligands]

ValidatorMarker(w) ==
    LET p == Worker("collection_processes", w)
    IN  /\ p.pc = "scan"
        /\ p.i > Len(p.item.ligands)
        /\ queue' = Put("summary_queue", delete_marker(p))
        /\ hist' = [hist EXCEPT !.markers = Append(@, delete_marker(p))]
        /\ processes' = SetWorker("collection_processes", w,
                                  [p EXCEPT !.pc = "get", !.item = None])
        /\ UNCHANGED <<ctx, env, driver, aggregator, scratch, uploaded>>

----------------------------------------------------------------------------
(* The Executor: docking_process() and docking_process_batch().             *)

ScenarioOf(c, sk) ==
    CHOOSE sc \in Range(c.docking_scenarios) : sc.key = sk

(* items_queue is a dict in insertion order: a sequence of [key, items].    *)
Keys(iq) == [j \in DOMAIN iq |-> iq[j].key]
Buffer(iq, sk) ==
    IF \E j \in DOMAIN iq : iq[j].key = sk
    THEN (CHOOSE e \in Range(iq) : e.key = sk).items
    ELSE <<>>
SetBuffer(iq, sk, items) ==
    IF \E j \in DOMAIN iq : iq[j].key = sk
    THEN [j \in DOMAIN iq |-> IF iq[j].key = sk
                               THEN [key |-> sk, items |-> items] ELSE iq[j]]
    ELSE Append(iq, [key |-> sk, items |-> items])

(* What one backend invocation can do with a task: the output has a score,  *)
(* the invocation times out, exits non-zero, its output has no score, or    *)
(* the start function or subprocess.run raises (an unreadable               *)
(* configuration file, a missing executable).                               *)
Outcome(k, sc) == [kind |-> k, score |-> sc]
Outcomes(e) ==
    { Outcome("success", sc) : sc \in IF "success" \in e.outcomes THEN e.scores
                                      ELSE {} }
    \cup { Outcome(k, 0) : k \in e.outcomes \ {"success"} }

(* for item in batched_item['items']: status "failed" and reason ""         *)
Prepare(item) == [item EXCEPT !.status = "failed", !.reason = ""]

(* The end functions.  docking_finish_vina and docking_finish_smina set the *)
(* score and the status, or the reason "Could not find score";              *)
(* docking_finish_plants catches the failure to parse and sets no reason.   *)
Parse(item, outcome) ==
    IF outcome.kind = "success"
    THEN [item EXCEPT !.status = "success", !.score = outcome.score]
    ELSE IF DOCKING_PROGRAMS[item.program].end
               \in {"docking_finish_vina", "docking_finish_smina"}
    THEN [item EXCEPT !.reason = "Could not find score"]
    ELSE item

(* The invocation of item raises: in the start function or subprocess.run,  *)
(* or in the end function, docking_finish_covdock(task) being called with   *)
(* two arguments after an exit status of 0.                                 *)
Raises(item, outcome) ==
    \/ outcome.kind = "start raises"
    \/ /\ outcome.kind \in {"success", "no score"}
       /\ DOCKING_PROGRAMS[item.program].end = "docking_finish_covdock"

(* docking_process_batch(), single-ligand model, one item whose invocation  *)
(* does not raise: docking_process_setup_common() makes tmp_run_dir, the    *)
(* invocation decides the outcome, docking_process_clean_common() removes   *)
(* tmp_run_dir.                                                             *)
RunItem(item, outcome) ==
    LET done == IF outcome.kind \in {"success", "no score"}
                THEN Parse(item, outcome)
                ELSE [item EXCEPT !.reason = outcome.kind]
    IN  [done EXCEPT !.tmp_run_dir = "deleted"]

(* The first item of the batch whose invocation raises, or one more than    *)
(* the items.                                                               *)
FirstRaise(items, outcomes) ==
    LET R == {j \in DOMAIN items : Raises(items[j], outcomes[j])}
    IN  IF R = {} THEN Len(items) + 1
        ELSE CHOOSE j \in R : \A i \in R : j <= i

(* The batch after its items were run in order, up to the first that        *)
(* raises: that one has its tmp_run_dir made and never removed.             *)
batched_item(scenario, items, outcomes) ==
    [type |-> "docking_complete",
     items |-> [j \in DOMAIN items |->
                  IF j < FirstRaise(items, outcomes)
                  THEN RunItem(Prepare(items[j]), outcomes[j])
                  ELSE IF j = FirstRaise(items, outcomes)
                  THEN [Prepare(items[j]) EXCEPT !.tmp_run_dir = "present"]
                  ELSE Prepare(items[j])],
     program |-> scenario.program,
     execution_type |-> DOCKING_PROGRAMS[scenario.program].ligands,
     scenario_key |-> scenario.key]

RECURSIVE DropEmpty(_, _)
DropEmpty(iq, todo) ==
    IF todo = <<>> THEN <<>>
    ELSE IF Buffer(iq, Head(todo)) = <<>> THEN DropEmpty(iq, Tail(todo))
    ELSE todo

(* The worker states after the local part of the calls of                   *)
(* docking_process_batch() for the scenarios of todo: an empty buffer       *)
(* returns at once; an unregistered program raises KeyError at the lookup   *)
(* of its execution model; an invocation that raises ends the worker;      *)
(* otherwise the batch runs and the worker reaches the wait for the         *)
(* summary queue.  With nothing left the worker goes on    *)
(* with its loop, or leaves it after the sentinel.                          *)
RunBatches(p) ==
    LET todo == DropEmpty(p.items_queue, p.todo)
    IN  IF todo = <<>>
        THEN { IF p.cont = "exit" THEN [Exit(p, "sentinel") EXCEPT !.todo = <<>>]
               ELSE [p EXCEPT !.pc = "get", !.todo = <<>>, !.cont = "get"] }
        ELSE LET scenario == ScenarioOf(ctx, Head(todo))
                 items == Buffer(p.items_queue, Head(todo))
             IN  IF scenario.program \notin DOMAIN DOCKING_PROGRAMS
                 THEN { [Crash(p, "unregistered backend") EXCEPT !.todo = todo] }
                 ELSE { IF FirstRaise(items, outcomes) <= Len(items)
                        THEN [Crash(p, IF outcomes[FirstRaise(items, outcomes)].kind
                                             = "start raises"
                                       THEN "invocation raised"
                                       ELSE "end function raised") EXCEPT
                                 !.todo = todo,
                                 !.batched_item =
                                     batched_item(scenario, items, outcomes)]
                        ELSE [p EXCEPT !.pc = "wait", !.todo = todo,
                                       !.batched_item =
                                           batched_item(scenario, items, outcomes)] :
                        outcomes \in [DOMAIN items -> Outcomes(env)] }

(* Mutant: the sentinel ends the loop without the flush of the buffers.     *)
ExecutorGet_NoFlushAtSentinel(w) ==
    LET p == Worker("docking_processes", w)
        item == Get("docking_queue")
    IN  /\ p.pc = "get"
        /\ queue.docking_queue # <<>>
        /\ queue' = [queue EXCEPT !.docking_queue = Tail(@)]
        /\ IF item.type = "None"
           THEN processes' = SetWorker("docking_processes", w, Exit(p, "sentinel"))
           ELSE LET sk == item.scenario_key
                    buf == Append(Buffer(p.items_queue, sk), item)
                    p1 == [p EXCEPT !.items_queue = SetBuffer(@, sk, buf)]
                IN  IF Len(buf) >= ScenarioOf(ctx, sk).batchsizes
                    THEN \E q \in RunBatches([p1 EXCEPT !.todo = <<sk>>,
                                                        !.cont = "get"]) :
                            processes' = SetWorker("docking_processes", w, q)
                    ELSE processes' = SetWorker("docking_processes", w, p1)
        /\ UNCHANGED <<ctx, env, driver, aggregator, scratch, uploaded, hist>>

(* Mutant: a buffer is run when it has grown past the batch size.           *)
ExecutorGet_OneLate(w) ==
    LET p == Worker("docking_processes", w)
        item == Get("docking_queue")
    IN  /\ p.pc = "get"
        /\ queue.docking_queue # <<>>
        /\ queue' = [queue EXCEPT !.docking_queue = Tail(@)]
        /\ IF item.type = "None"
           THEN \E q \in RunBatches([p EXCEPT !.todo = Keys(p.items_queue),
                                              !.cont = "exit"]) :
                    processes' = SetWorker("docking_processes", w, q)
           ELSE LET sk == item.scenario_key
                    buf == Append(Buffer(p.items_queue, sk), item)
                    p1 == [p EXCEPT !.items_queue = SetBuffer(@, sk, buf)]
                IN  IF Len(buf) > ScenarioOf(ctx, sk).batchsizes
                    THEN \E q \in RunBatches([p1 EXCEPT !.todo = <<sk>>,
                                                        !.cont = "get"]) :
                            processes' = SetWorker("docking_processes", w, q)
                    ELSE processes' = SetWorker("docking_processes", w, p1)
        /\ UNCHANGED <<ctx, env, driver, aggregator, scratch, uploaded, hist>>

(* One docking_queue.get(timeout=2) that returns an item: the sentinel      *)
(* flushes every buffer and ends the loop; a task is appended to the buffer *)
(* of its scenario, which is run when it has reached the batch size.        *)
ExecutorGet(w) ==
    LET p == Worker("docking_processes", w)
        item == Get("docking_queue")
    IN  /\ p.pc = "get"
        /\ queue.docking_queue # <<>>
        /\ queue' = [queue EXCEPT !.docking_queue = Tail(@)]
        /\ IF item.type = "None"
           THEN \E q \in RunBatches([p EXCEPT !.todo = Keys(p.items_queue),
                                              !.cont = "exit"]) :
                    processes' = SetWorker("docking_processes", w, q)
           ELSE LET sk == item.scenario_key
                    buf == Append(Buffer(p.items_queue, sk), item)
                    p1 == [p EXCEPT !.items_queue = SetBuffer(@, sk, buf)]
                IN  IF Len(buf) >= ScenarioOf(ctx, sk).batchsizes
                    THEN \E q \in RunBatches([p1 EXCEPT !.todo = <<sk>>,
                                                        !.cont = "get"]) :
                            processes' = SetWorker("docking_processes", w, q)
                    ELSE processes' = SetWorker("docking_processes", w, p1)
        /\ UNCHANGED <<ctx, env, driver, aggregator, scratch, uploaded, hist>>

(* Mutant: a poll that times out runs only the buffers that have reached   *)
(* the batch size.                                                          *)
ExecutorIdle_OnlyFullBatches(w) ==
    LET p == Worker("docking_processes", w)
        full == SelectSeq(Keys(p.items_queue),
                          LAMBDA sk : Len(Buffer(p.items_queue, sk))
                                         >= ScenarioOf(ctx, sk).batchsizes)
    IN  /\ p.pc = "get"
        /\ queue.docking_queue = <<>>
        /\ full # <<>>
        /\ \E q \in RunBatches([p EXCEPT !.todo = full, !.cont = "idle"]) :
              processes' = SetWorker("docking_processes", w, q)
        /\ UNCHANGED <<ctx, env, driver, queue, aggregator, scratch, uploaded, hist>>

(* One docking_queue.get(timeout=2) that raises Empty: every buffer is run, *)
(* also a partial one.  cont is the place of the call of                    *)
(* docking_process_batch(): "idle" (line 472), "exit" (line 481) or "get"   *)
(* (line 493).                                                              *)
ExecutorIdle(w) ==
    LET p == Worker("docking_processes", w)
    IN  /\ p.pc = "get"
        /\ queue.docking_queue = <<>>
        /\ DropEmpty(p.items_queue, Keys(p.items_queue)) # <<>>
        /\ \E q \in RunBatches([p EXCEPT !.todo = Keys(p.items_queue),
                                          !.cont = "idle"]) :
              processes' = SetWorker("docking_processes", w, q)
        /\ UNCHANGED <<ctx, env, driver, queue, aggregator, scratch, uploaded, hist>>

(* docking_process_batch(): while summary_queue.qsize() > 200               *)
ExecutorWait(w) ==
    LET p == Worker("docking_processes", w)
    IN  /\ p.pc = "wait"
        /\ Len(queue.summary_queue) <= SummaryHighWater
        /\ processes' = SetWorker("docking_processes", w, [p EXCEPT !.pc = "put"])
        /\ UNCHANGED <<ctx, env, driver, queue, aggregator, scratch, uploaded, hist>>

(* docking_process_batch(): summary_queue.put(batched_item); back in        *)
(* docking_process() the buffer is cleared and the next scenario is run.    *)
ExecutorPut(w) ==
    LET p == Worker("docking_processes", w)
        p1 == [p EXCEPT !.items_queue = SetBuffer(@, Head(p.todo), <<>>),
                        !.todo = Tail(@), !.batched_item = None]
    IN  /\ p.pc = "put"
        /\ queue' = Put("summary_queue", p.batched_item)
        /\ \E q \in RunBatches(p1) :
              processes' = SetWorker("docking_processes", w, q)
        /\ UNCHANGED <<ctx, env, driver, aggregator, scratch, uploaded, hist>>

----------------------------------------------------------------------------
(* The Aggregator: summary_process().  Its state while it handles one       *)
(* event is the record [od, sd, cc, scratch, archived, crashed]: the        *)
(* overview data, the summary data, the completion map, the scratch         *)
(* directories, the archive-and-cleanup actions done, and whether an        *)
(* exception ended the handler.                                             *)

(* Mutant: a collection is completed only once it has counted an outcome.   *)
check_for_completion_NotWhenZero(st, collection_key) ==
    LET e == st.cc[collection_key]
    IN  IF e.current_completions # e.expected_completions
           \/ e.current_completions = 0 THEN st
        ELSE IF e.temp_dir \notin DOMAIN st.scratch
                \/ st.scratch[e.temp_dir] # "present"
        THEN [st EXCEPT !.crashed = TRUE]
        ELSE [st EXCEPT
                !.scratch[e.temp_dir] = "deleted",
                !.archived = Append(@, collection_key),
                !.cc = [k \in DOMAIN st.cc \ {collection_key} |-> st.cc[k]]]

(* check_for_completion_of_collection_key(): when the counts agree, the     *)
(* scenario output directories under temp_dir are moved into the final      *)
(* tree, temp_dir is removed and the entry is popped.  Listing or removing  *)
(* a directory that is not there raises.                                    *)
(* Mutant: a completed collection is archived and keeps its entry.          *)
check_for_completion_KeepsEntry(st, collection_key) ==
    LET e == st.cc[collection_key]
    IN  IF e.current_completions # e.expected_completions THEN st
        ELSE IF e.temp_dir \notin DOMAIN st.scratch
                \/ st.scratch[e.temp_dir] # "present"
        THEN [st EXCEPT !.crashed = TRUE]
        ELSE [st EXCEPT
                !.scratch[e.temp_dir] = "deleted",
                !.archived = Append(@, collection_key)]

check_for_completion_of_collection_key(st, collection_key) ==
    LET e == st.cc[collection_key]
    IN  IF e.current_completions # e.expected_completions THEN st
        ELSE IF e.temp_dir \notin DOMAIN st.scratch
                \/ st.scratch[e.temp_dir] # "present"
        THEN [st EXCEPT !.crashed = TRUE]
        ELSE [st EXCEPT
                !.scratch[e.temp_dir] = "deleted",
                !.archived = Append(@, collection_key),
                !.cc = [k \in DOMAIN st.cc \ {collection_key} |-> st.cc[k]]]

(* Mutant: the marker of a collection that has an entry starts the count    *)
(* of the entry again.                                                      *)
HandleDelete_ResetsCurrent(st, item) ==
    LET key == item.base_collection_key
        cc1 == [k \in DOMAIN st.cc \cup {key} |->
                  IF k = key
                  THEN [expected_completions |-> item.expected_completions,
                        current_completions |-> 0,
                        temp_dir |-> item.temp_dir]
                  ELSE st.cc[k]]
    IN  check_for_completion_of_collection_key([st EXCEPT !.cc = cc1], key)

(* Mutant: the marker is stored without a look at the count of the entry.   *)
HandleDelete_Unchecked(st, item) ==
    LET key == item.base_collection_key
    IN  [st EXCEPT !.cc =
            IF key \in DOMAIN st.cc
            THEN [st.cc EXCEPT
                     ![key].expected_completions = item.expected_completions,
                     ![key].temp_dir = item.temp_dir]
            ELSE [k \in DOMAIN st.cc \cup {key} |->
                     IF k = key
                     THEN [expected_completions |-> item.expected_completions,
                           current_completions |-> 0,
                           temp_dir |-> item.temp_dir]
                     ELSE st.cc[k]]]

(* item['type'] == "delete"                                                 *)
HandleDelete(st, item) ==
    LET key == item.base_collection_key
        cc1 == IF key \in DOMAIN st.cc
               THEN [st.cc EXCEPT
                        ![key].expected_completions = item.expected_completions,
                        ![key].temp_dir = item.temp_dir]
               ELSE [k \in DOMAIN st.cc \cup {key} |->
                        IF k = key
                        THEN [expected_completions |-> item.expected_completions,
                              current_completions |-> 0,
                              temp_dir |-> item.temp_dir]
                        ELSE st.cc[k]]
    IN  check_for_completion_of_collection_key([st EXCEPT !.cc = cc1], key)

(* item['type'] == "download_failed"                                        *)
HandleDownloadFailed(st, item) ==
    [st EXCEPT !.od.failed_downloads_log = Append(@, item.log),
               !.od.failed_downloads = @ + 1,
               !.od.failed_downloads_dockings = @ + item.log.dockings]

(* Mutant: a skip is counted and not logged.                                *)
HandleSkip_CountedNotLogged(st, item) ==
    [st EXCEPT !.od.skipped_ligands = @ + 1]

(* item['type'] == "skip"                                                   *)
HandleSkip(st, item) ==
    [st EXCEPT !.od.skipped_ligands = @ + 1,
               !.od.skipped_ligand_list = Append(@, item.log)]

(* Mutant: the rows are keyed by the ligand_key and the collection_key.    *)
AddScore_KeyedByCollection(rows, single_item) ==
    IF \E j \in DOMAIN rows : /\ rows[j].ligand = single_item.ligand_key
                              /\ rows[j].collection_key = single_item.collection_key
    THEN [j \in DOMAIN rows |->
            IF /\ rows[j].ligand = single_item.ligand_key
               /\ rows[j].collection_key = single_item.collection_key
            THEN [rows[j] EXCEPT !.scores = Append(@, single_item.score)]
            ELSE rows[j]]
    ELSE Append(rows, [ligand |-> single_item.ligand_key,
                       collection_key |-> single_item.collection_key,
                       scenario |-> single_item.scenario_key,
                       scores |-> <<single_item.score>>,
                       attrs |-> single_item.attrs])

(* Mutant: a later success replaces the scores of the row.                  *)
AddScore_Replaces(rows, single_item) ==
    IF \E j \in DOMAIN rows : rows[j].ligand = single_item.ligand_key
    THEN [j \in DOMAIN rows |->
            IF rows[j].ligand = single_item.ligand_key
            THEN [rows[j] EXCEPT !.scores = <<single_item.score>>]
            ELSE rows[j]]
    ELSE Append(rows, [ligand |-> single_item.ligand_key,
                       collection_key |-> single_item.collection_key,
                       scenario |-> single_item.scenario_key,
                       scores |-> <<single_item.score>>,
                       attrs |-> single_item.attrs])

(* The row update of a successful docking: keyed by the ligand_key within   *)
(* the scenario.                                                            *)
AddScore(rows, single_item) ==
    IF \E j \in DOMAIN rows : rows[j].ligand = single_item.ligand_key
    THEN [j \in DOMAIN rows |->
            IF rows[j].ligand = single_item.ligand_key
            THEN [rows[j] EXCEPT !.scores = Append(@, single_item.score)]
            ELSE rows[j]]
    ELSE Append(rows, [ligand |-> single_item.ligand_key,
                       collection_key |-> single_item.collection_key,
                       scenario |-> single_item.scenario_key,
                       scores |-> <<single_item.score>>,
                       attrs |-> single_item.attrs])

Log(single_item) ==
    [base_collection_key |-> single_item.base_collection_key,
     collection_key |-> single_item.collection_key,
     ligand_key |-> single_item.ligand_key,
     reason |-> single_item.reason]

(* Mutant: the first outcome of a collection creates its entry without      *)
(* counting itself.                                                         *)
HandleSingleItem_FirstNotCounted(st, single_item) ==
    LET key == single_item.base_collection_key
        st1 == [st EXCEPT !.od.total_dockings = @ + 1,
                          !.od.dockings_status[single_item.status] = @ + 1]
        st2 == IF single_item.status = "success"
               THEN [st1 EXCEPT !.sd[single_item.scenario_key] =
                                    AddScore(@, single_item)]
               ELSE [st1 EXCEPT !.od.failed_list = Append(@, Log(single_item))]
    IN  IF key \in DOMAIN st2.cc
        THEN check_for_completion_of_collection_key(
                [st2 EXCEPT !.cc[key].current_completions = @ + 1], key)
        ELSE [st2 EXCEPT !.cc =
                [k \in DOMAIN st2.cc \cup {key} |->
                    IF k = key
                    THEN [expected_completions |-> UnknownExpected,
                          current_completions |-> 0,
                          temp_dir |-> 0]
                    ELSE st2.cc[k]]]

(* Mutant: a failed outcome is counted in the total but in no status.       *)
HandleSingleItem_FailedNotCounted(st, single_item) ==
    LET key == single_item.base_collection_key
        st1 == IF single_item.status = "success"
               THEN [st EXCEPT !.od.total_dockings = @ + 1,
                               !.od.dockings_status.success = @ + 1]
               ELSE [st EXCEPT !.od.total_dockings = @ + 1]
        st2 == IF single_item.status = "success"
               THEN [st1 EXCEPT !.sd[single_item.scenario_key] =
                                    AddScore(@, single_item)]
               ELSE [st1 EXCEPT !.od.failed_list = Append(@, Log(single_item))]
    IN  IF key \in DOMAIN st2.cc
        THEN check_for_completion_of_collection_key(
                [st2 EXCEPT !.cc[key].current_completions = @ + 1], key)
        ELSE [st2 EXCEPT !.cc =
                [k \in DOMAIN st2.cc \cup {key} |->
                    IF k = key
                    THEN [expected_completions |-> UnknownExpected,
                          current_completions |-> 1,
                          temp_dir |-> 0]
                    ELSE st2.cc[k]]]

(* The body of: for single_item in item['items']                            *)
HandleSingleItem(st, single_item) ==
    LET key == single_item.base_collection_key
        st1 == [st EXCEPT !.od.total_dockings = @ + 1,
                          !.od.dockings_status[single_item.status] = @ + 1]
        st2 == IF single_item.status = "success"
               THEN [st1 EXCEPT !.sd[single_item.scenario_key] =
                                    AddScore(@, single_item)]
               ELSE [st1 EXCEPT !.od.failed_list = Append(@, Log(single_item))]
    IN  IF key \in DOMAIN st2.cc
        THEN check_for_completion_of_collection_key(
                [st2 EXCEPT !.cc[key].current_completions = @ + 1], key)
        ELSE [st2 EXCEPT !.cc =
                [k \in DOMAIN st2.cc \cup {key} |->
                    IF k = key
                    THEN [expected_completions |-> UnknownExpected,
                          current_completions |-> 1,
                          temp_dir |-> 0]
                    ELSE st2.cc[k]]]

(* item['type'] == "docking_complete": the items in order, until one raises *)
RECURSIVE HandleItems(_, _)
HandleItems(st, items) ==
    IF items = <<>> \/ st.crashed THEN st
    ELSE HandleItems(HandleSingleItem(st, Head(items)), Tail(items))

HandleEvent(st, item) ==
    CASE item.type = "delete" -> HandleDelete(st, item)
      [] item.type = "download_failed" -> HandleDownloadFailed(st, item)
      [] item.type = "skip" -> HandleSkip(st, item)
      [] item.type = "docking_complete" -> HandleItems(st, item.items)
      [] OTHER -> [st EXCEPT !.crashed = TRUE]

(* An upload request.  Each is made with a temp_dir of its own              *)
(* (tempfile.mkdtemp), named here by its content and scenario.              *)
UploadItem(content, scenario_key) ==
    [type |-> "item", content |-> content, scenario_key |-> scenario_key,
     rows |-> <<>>, temp_dir |-> <<content, scenario_key>>]

(* The file system after the temp_dir of every request of items was made.   *)
MakeDirs(up, items) ==
    LET new == {items[j].temp_dir : j \in DOMAIN items}
    IN  [up EXCEPT !.temp_dir =
            [d \in DOMAIN up.temp_dir \cup new |->
                IF d \in new THEN "present" ELSE up.temp_dir[d]]]

(* min(scores): the smallest element, found from left to right.             *)
RECURSIVE Min(_)
Min(scores) ==
    IF Len(scores) = 1 THEN scores[1]
    ELSE LET m == Min(SubSeq(scores, 1, Len(scores) - 1))
         IN  IF scores[Len(scores)] < m THEN scores[Len(scores)] ELSE m

(* mean(scores): the exact quotient of the sum and the count, held as the   *)
(* pair of the two.                                                         *)
Mean(scores) == [num |-> SumSeq(scores), den |-> Len(scores)]

(* Mutant: the average and the minimum are taken from the first score.      *)
Reduce_FirstScoreOnly(summary_value) ==
    [ligand |-> summary_value.ligand,
     collection_key |-> summary_value.collection_key,
     scenario |-> summary_value.scenario,
     score |-> [index \in 0..(Len(summary_value.scores) - 1) |->
                   summary_value.scores[index + 1]],
     score_average |-> Mean(<<summary_value.scores[1]>>),
     score_min |-> summary_value.scores[1]]

(* The reduction of one row: score_<index> for every score, score_average   *)
(* and score_min; 'scores' is dropped.                                      *)
Reduce(summary_value) ==
    [ligand |-> summary_value.ligand,
     collection_key |-> summary_value.collection_key,
     scenario |-> summary_value.scenario,
     score |-> [index \in 0..(Len(summary_value.scores) - 1) |->
                   summary_value.scores[index + 1]],
     score_average |-> Mean(summary_value.scores),
     score_min |-> Min(summary_value.scores)]

(* The summary table of one scenario: its rows, reduced.                    *)
SummaryItem(scenario_key, rows) ==
    [UploadItem("summary", scenario_key) EXCEPT
        !.rows = [j \in DOMAIN rows |-> Reduce(rows[j])]]

(* generate_summary_file(): scenario by scenario, leaving the loop at the   *)
(* first scenario without rows.                                             *)
RECURSIVE generate_summary_file(_, _, _)
generate_summary_file(c, sd, j) ==
    IF j > Len(c.docking_scenarios) THEN <<>>
    ELSE IF Len(sd[c.docking_scenarios[j].key]) = 0 THEN <<>>
    ELSE <<SummaryItem(c.docking_scenarios[j].key,
                       sd[c.docking_scenarios[j].key])>>
         \o generate_summary_file(c, sd, j + 1)

(* generate_output_archives(): one archive per scenario.                    *)
generate_output_archives(c) ==
    [j \in DOMAIN c.docking_scenarios |->
        UploadItem("archive", c.docking_scenarios[j].key)]

(* Mutant: the overview report is written only when dockings were          *)
(* processed.                                                               *)
FinalUploads_OnlyIfProcessed(c, sd, processed) ==
    IF processed > 0
    THEN <<UploadItem("overview", "")>>
         \o generate_summary_file(c, sd, 1) \o generate_output_archives(c)
    ELSE <<>>

(* What the sentinel puts on the upload queue.                              *)
FinalUploads(c, sd, processed) ==
    <<UploadItem("overview", "")>>
    \o (IF processed > 0
        THEN generate_summary_file(c, sd, 1) \o generate_output_archives(c)
        ELSE <<>>)

(* History: the markers and docking outcomes the Aggregator has handled,    *)
(* in the order it handled them.                                            *)
Handled(item) ==
    CASE item.type = "delete" -> <<item>>
      [] item.type = "docking_complete" -> item.items
      [] OTHER -> <<>>

(* One summary_queue.get() and the handling of the item.                    *)
AggregatorGet ==
    LET p == Worker("summary_processes", 1)
        item == Get("summary_queue")
        st == [od |-> overview_data, sd |-> summary_data,
               cc |-> collection_completions, scratch |-> scratch,
               archived |-> hist.archived, crashed |-> FALSE]
    IN  /\ p.pc = "get"
        /\ queue.summary_queue # <<>>
        /\ IF item.type = "None"
           THEN /\ queue' = [queue EXCEPT
                                !.summary_queue = Tail(@),
                                !.upload_queue = @ \o FinalUploads(ctx,
                                    summary_data, dockings_processed)]
                /\ uploaded' = MakeDirs(uploaded, FinalUploads(ctx,
                                    summary_data, dockings_processed))
                /\ processes' = SetWorker("summary_processes", 1,
                                          Exit(p, "sentinel"))
                /\ UNCHANGED <<aggregator, scratch, hist>>
           ELSE LET st1 == HandleEvent(st, item)
                IN  /\ queue' = [queue EXCEPT !.summary_queue = Tail(@)]
                    /\ overview_data' = st1.od
                    /\ summary_data' = st1.sd
                    /\ collection_completions' = st1.cc
                    /\ scratch' = st1.scratch
                    /\ dockings_processed' =
                          IF item.type = "docking_complete"
                          THEN dockings_processed + 1 ELSE dockings_processed
                    /\ hist' = [hist EXCEPT !.archived = st1.archived,
                                            !.handled = @ \o Handled(item)]
                    /\ processes' = IF st1.crashed
                                    THEN SetWorker("summary_processes", 1,
                                                   Crash(p, "exception"))
                                    ELSE processes
                    /\ UNCHANGED uploaded
        /\ UNCHANGED <<ctx, env, driver>>

----------------------------------------------------------------------------
(* The Uploader: upload_process().  The outcome of the transfer is an       *)
(* input; a failed transfer raises and ends the worker before the temp_dir  *)
(* of the request is removed.                                               *)

(* Mutant: the temp_dir of the request is removed before the transfer.      *)
UploaderGet_DeletesFirst(w) ==
    LET p == Worker("uploader_processes", w)
        item == Get("upload_queue")
    IN  /\ p.pc = "get"
        /\ queue.upload_queue # <<>>
        /\ queue' = [queue EXCEPT !.upload_queue = Tail(@)]
        /\ IF item.type = "None"
           THEN /\ processes' = SetWorker("uploader_processes", w,
                                          Exit(p, "sentinel"))
                /\ UNCHANGED uploaded
           ELSE \E ok \in {TRUE} \cup {~env.upload_fails} :
                  IF ok
                  THEN /\ uploaded' = [uploaded EXCEPT
                                          !.transferred = @ \cup {item},
                                          !.temp_dir[item.temp_dir] = "deleted"]
                       /\ UNCHANGED processes
                  ELSE /\ processes' = SetWorker("uploader_processes", w,
                                                 Crash(p, "upload failed"))
                       /\ uploaded' = [uploaded EXCEPT
                                          !.temp_dir[item.temp_dir] = "deleted"]
        /\ UNCHANGED <<ctx, env, driver, aggregator, scratch, hist>>

UploaderGet(w) ==
    LET p == Worker("uploader_processes", w)
        item == Get("upload_queue")
    IN  /\ p.pc = "get"
        /\ queue.upload_queue # <<>>
        /\ queue' = [queue EXCEPT !.upload_queue = Tail(@)]
        /\ IF item.type = "None"
           THEN /\ processes' = SetWorker("uploader_processes", w,
                                          Exit(p, "sentinel"))
                /\ UNCHANGED uploaded
           ELSE \E ok \in {TRUE} \cup {~env.upload_fails} :
                  IF ok
                  THEN /\ uploaded' = [uploaded EXCEPT
                                          !.transferred = @ \cup {item},
                                          !.temp_dir[item.temp_dir] = "deleted"]
                       /\ UNCHANGED processes
                  ELSE /\ processes' = SetWorker("uploader_processes", w,
                                                 Crash(p, "upload failed"))
                       /\ UNCHANGED uploaded
        /\ UNCHANGED <<ctx, env, driver, aggregator, scratch, hist>>

----------------------------------------------------------------------------
Workers(pool) == DOMAIN processes[pool]

Next ==
    \/ DriverEnqueue
    \/ DriverFlushSend
    \/ DriverFlushJoin
    \/ \E w \in Workers("downloader_processes") : DownloaderGet(w)
    \/ \E w \in Workers("downloader_processes") : DownloaderWait(w)
    \/ \E w \in Workers("downloader_processes") : DownloaderPut(w)
    \/ \E w \in Workers("unpacker_processes") : UnpackerGet(w)
    \/ \E w \in Workers("unpacker_processes") : UnpackerWait(w)
    \/ \E w \in Workers("unpacker_processes") : UnpackerPut(w)
    \/ \E w \in Workers("collection_processes") : ValidatorGet(w)
    \/ \E w \in Workers("collection_processes") : ValidatorScan(w)
    \/ \E w \in Workers("collection_processes") : ValidatorSubmit(w)
    \/ \E w \in Workers("collection_processes") : ValidatorSubmitWait(w)
    \/ \E w \in Workers("collection_processes") : ValidatorMarker(w)
    \/ \E w \in Workers("docking_processes") : ExecutorGet(w)
    \/ \E w \in Workers("docking_processes") : ExecutorIdle(w)
    \/ \E w \in Workers("docking_processes") : ExecutorWait(w)
    \/ \E w \in Workers("docking_processes") : ExecutorPut(w)
    \/ AggregatorGet
    \/ \E w \in Workers("uploader_processes") : UploaderGet(w)

Spec == Init /\ [][Next]_vars

SpecBackpressure == BackpressureInit /\ [][Next]_vars

SpecSameNames == SameNameInit /\ [][Next]_vars

----------------------------------------------------------------------------
(* Properties.                                                              *)

CollectionKeys == {ctx.collections[i].collection_key : i \in DOMAIN ctx.collections}

(* The collection of the subjob with key k.                                 *)
CollectionOf(k) == CHOOSE c \in Range(ctx.collections) : c.collection_key = k

(* The rows of the '.listing' of collection c that name ligand l with a     *)
(* screen index below the cutoff.                                           *)
KeptRows(c, l) ==
    {n \in DOMAIN c.listing :
        /\ c.listing[n].screen_ligand_name = l
        /\ c.listing[n].screen_index < c.prescreen_ligands_per_tranche}

(* The ligands of the archive of collection c that its mode keeps.          *)
KeptLigands(c) ==
    {l \in {LigandName(c.collection_key, j) : j \in 1..c.capacity} :
        CASE c.mode = "prescreen_mode" -> KeptRows(c, l) # {}
          [] c.mode = "named" -> l \in Range(c.ligands)
          [] OTHER -> TRUE}

Occurrences(s, x) == Cardinality({i \in DOMAIN s : s[i] = x})

(* The docking outcomes of collection k the Aggregator has handled, and the *)
(* tasks the Validator has put on the docking queue for it.                 *)
ReportedFor(k) ==
    {i \in DOMAIN hist.handled :
        /\ hist.handled[i].type = "docking_item"
        /\ hist.handled[i].base_collection_key = k}
DispatchedFor(k) ==
    {i \in DOMAIN hist.dispatched : hist.dispatched[i].base_collection_key = k}
MarkerHandledAt(k) ==
    {i \in DOMAIN hist.handled :
        /\ hist.handled[i].type = "delete"
        /\ hist.handled[i].base_collection_key = k}
MarkersFor(k) ==
    {i \in DOMAIN hist.markers : hist.markers[i].base_collection_key = k}

(* C1: for a collection whose delete marker and whose N docking outcomes    *)
(* the Aggregator handles in any order, the archive-and-cleanup action runs *)
(* exactly once: never twice, and once all of them are handled it has run,  *)
(* the scratch directory is deleted and the map entry is gone.              *)
C1_ArchiveExactlyOnce ==
    \A k \in CollectionKeys :
        /\ Occurrences(hist.archived, k) <= 1
        /\ \A i \in MarkerHandledAt(k) :
              Cardinality(ReportedFor(k)) = hist.handled[i].expected_completions
              => /\ Occurrences(hist.archived, k) = 1
                 /\ scratch[k] = "deleted"
                 /\ k \notin DOMAIN collection_completions

(* The marker of a collection was handled between two of its outcomes, and  *)
(* the collection is archived.                                              *)
C1_Witness ==
    \E k \in CollectionKeys :
        /\ Occurrences(hist.archived, k) = 1
        /\ \E i \in ReportedFor(k), j \in MarkerHandledAt(k), l \in ReportedFor(k) :
              i < j /\ j < l

(* A task is one (collection, ligand, scenario, replica).                   *)
TaskId(item) ==
    <<item.base_collection_key, item.ligand_key, item.scenario_key,
      item.replica_index>>

Reported == {i \in DOMAIN hist.handled : hist.handled[i].type = "docking_item"}

(* The docking items that are queued, buffered in an Executor worker, being *)
(* run or emitted by it, or waiting in a docking_complete event.            *)
InDockingQueue ==
    {queue.docking_queue[i] : i \in {j \in DOMAIN queue.docking_queue :
                                        queue.docking_queue[j].type # "None"}}
InExecutor(w) ==
    LET p == processes.docking_processes[w]
    IN  IF Terminated(p) THEN {}
        ELSE UNION {Range(p.items_queue[j].items) : j \in DOMAIN p.items_queue}
InSummaryQueue ==
    UNION {Range(queue.summary_queue[i].items) :
             i \in {j \in DOMAIN queue.summary_queue :
                       queue.summary_queue[j].type = "docking_complete"}}
InFlight ==
    InDockingQueue \cup InSummaryQueue
    \cup UNION {InExecutor(w) : w \in DOMAIN processes.docking_processes}

(* A Validator worker is still working on collection k.                     *)
Validating(k) ==
    \E w \in DOMAIN processes.collection_processes :
        LET p == processes.collection_processes[w]
        IN  p.pc \in {"scan", "submit", "submit_wait"} /\ p.item.collection_key = k

(* C2: when a collection has been archived and its scratch directory        *)
(* deleted, every task the Validator dispatched for it has been reported to *)
(* the Aggregator, none is queued, buffered, running or waiting in an       *)
(* event, and the Validator is not working on the collection any more.      *)
C2_NoEarlyArchive ==
    \A k \in CollectionKeys :
        Occurrences(hist.archived, k) >= 1
        => /\ \A i \in DispatchedFor(k) :
                \E j \in ReportedFor(k) :
                    TaskId(hist.handled[j]) = TaskId(hist.dispatched[i])
           /\ \A item \in InFlight : item.base_collection_key # k
           /\ ~Validating(k)

(* A collection with tasks of several replicas has been archived.           *)
C2_Witness ==
    \E k \in CollectionKeys :
        /\ Occurrences(hist.archived, k) = 1
        /\ Cardinality({hist.dispatched[i].replica_index : i \in DispatchedFor(k)}) >= 2

(* C3: the two status counters add up to total_dockings, which is the       *)
(* number of docking outcomes handled; success counts the successful ones.  *)
C3_StatusSum ==
    /\ overview_data.dockings_status.success + overview_data.dockings_status.failed
         = overview_data.total_dockings
    /\ overview_data.total_dockings = Cardinality(Reported)
    /\ overview_data.dockings_status.success =
         Cardinality({i \in Reported : hist.handled[i].status = "success"})

(* Successful and failed outcomes have been counted.                        *)
C3_Witness ==
    /\ overview_data.dockings_status.success >= 1
    /\ overview_data.dockings_status.failed >= 1

(* The tasks ever put on the docking queue for ligand l.                    *)
DispatchedOf(l) ==
    {i \in DOMAIN hist.dispatched : hist.dispatched[i].ligand_key = l}

(* Exactly one of the two: one skip event and no task, or no skip event and *)
(* one task per scenario and replica.                                       *)
Decided(l) ==
    \/ /\ Occurrences(hist.skipped, l) = 1
       /\ DispatchedOf(l) = {}
    \/ /\ Occurrences(hist.skipped, l) = 0
       /\ Cardinality(DispatchedOf(l)) = completions_per_ligand(ctx)
       /\ Cardinality({TaskId(hist.dispatched[i]) : i \in DispatchedOf(l)})
            = completions_per_ligand(ctx)

(* The ligands whose scan a Validator worker has completed: those before    *)
(* the ligand the worker is at, and those of collections with a marker.     *)
ScannedBy(w) ==
    LET p == processes.collection_processes[w]
    IN  IF p.item.type = "None" THEN {}
        ELSE {p.item.ligands[j].ligand_key :
                j \in {n \in DOMAIN p.item.ligands : n < p.i}}
CompletedLigands ==
    UNION {ScannedBy(w) : w \in DOMAIN processes.collection_processes}
    \cup UNION {KeptLigands(c) :
                  c \in {d \in Range(ctx.collections) :
                            MarkersFor(d.collection_key) # {}}}

Passed(c) ==
    KeptLigands(c) \ Range(hist.skipped)

(* One task per passing ligand, scenario and replica index.                 *)
TasksOf(c) ==
    UNION {{<<c.collection_key, l, sc.key, r>> :
              l \in Passed(c), r \in 0..(sc.replicas - 1)} :
           sc \in Range(ctx.docking_scenarios)}

(* C5: for a collection whose marker is out, with L ligands that passed     *)
(* validation, the tasks put on the docking queue are exactly one per       *)
(* passing ligand, scenario and replica index, L * sum of replicas in all,  *)
(* and the marker's expected_completions is that number; once the marker    *)
(* and all these outcomes are handled, the scratch directory has been       *)
(* removed, and the archive action has run once.                            *)
C5_TaskCount ==
    \A c \in Range(ctx.collections) :
        LET k == c.collection_key
            N == Cardinality(Passed(c)) * completions_per_ligand(ctx)
        IN  \A m \in MarkersFor(k) :
              /\ Cardinality(DispatchedFor(k)) = N
              /\ {TaskId(hist.dispatched[i]) : i \in DispatchedFor(k)} = TasksOf(c)
              /\ hist.markers[m].expected_completions = N
              /\ Occurrences(hist.archived, k) <= 1
              /\ (MarkerHandledAt(k) # {} /\ Cardinality(ReportedFor(k)) = N)
                    => /\ Occurrences(hist.archived, k) = 1
                       /\ scratch[k] = "deleted"

(* The collection of 2 ligands with 1 scenario of 2 replicas and batch size *)
(* 1: 4 tasks, expected_completions 4, all reported as successes, archived. *)
C5_Witness ==
    \E c \in Range(ctx.collections) :
        LET k == c.collection_key
        IN  /\ c.capacity = 2
            /\ Len(ctx.docking_scenarios) = 1
            /\ ctx.docking_scenarios[1].replicas = 2
            /\ ctx.docking_scenarios[1].batchsizes = 1
            /\ Cardinality(DispatchedFor(k)) = 4
            /\ \E m \in MarkersFor(k) : hist.markers[m].expected_completions = 4
            /\ Cardinality({i \in ReportedFor(k) : hist.handled[i].status = "success"}) = 4
            /\ Occurrences(hist.archived, k) = 1
            /\ scratch[k] = "deleted"

(* C6 as stated: no collection has two delete markers; once a marker is out *)
(* no Validator worker is still scanning or submitting ligands of its       *)
(* collection (its tasks and skip events all precede it); and every         *)
(* collection item a Validator worker took and is done with has its marker. *)
C6_OneMarkerPerItem ==
    /\ \A k \in CollectionKeys :
          /\ Cardinality(MarkersFor(k)) <= 1
          /\ MarkersFor(k) # {} => ~Validating(k)
    /\ \A w \in DOMAIN processes.collection_processes :
          LET p == processes.collection_processes[w]
          IN  Terminated(p) /\ p.item.type # "None"
              => MarkersFor(p.item.collection_key) # {}

(* The stages whose sentinels the driver has all put: one entry of          *)
(* hist.all_running each.                                                   *)
Sent == DOMAIN hist.all_running
Pool(s) == processes[StagePool[s]]
Sentinels(s) ==
    {i \in DOMAIN queue[StageQueue[s]] : queue[StageQueue[s]][i].type = "None"}
AllTerminated(s) == \A w \in DOMAIN Pool(s) : Terminated(Pool(s)[w])
JoinFailed(s) == driver.pc = "failed" /\ driver.stage = s

(* No worker of stage s has terminated in another way than by taking a      *)
(* sentinel.                                                                *)
OnlySentinelExits(s) ==
    \A w \in DOMAIN Pool(s) :
        Terminated(Pool(s)[w]) => Pool(s)[w].cause = "sentinel"

StageNumbers == DOMAIN StagePool
WorkItems(s) == DOMAIN queue[StageQueue[s]] \ Sentinels(s)
TookSentinel(s) == {w \in DOMAIN Pool(s) : Pool(s)[w].cause = "sentinel"}
UpstreamExited(s) ==
    \A u \in StageNumbers :
        u < s => \A w \in DOMAIN Pool(u) : Pool(u)[w].pc = "exited"

Queued(t) ==
    {i \in DOMAIN queue.docking_queue :
        /\ queue.docking_queue[i].type = "docking_item"
        /\ TaskId(queue.docking_queue[i]) = t}
Buffered(t) ==
    {x \in UNION {UNION {{<<w, j, n>> :
                            n \in DOMAIN processes.docking_processes[w].items_queue[j].items} :
                         j \in DOMAIN processes.docking_processes[w].items_queue} :
                  w \in DOMAIN processes.docking_processes} :
        /\ ~Terminated(processes.docking_processes[x[1]])
        /\ TaskId(processes.docking_processes[x[1]].items_queue[x[2]].items[x[3]]) = t}
InEvent(t) ==
    {x \in UNION {{<<i, n>> : n \in DOMAIN queue.summary_queue[i].items} :
                  i \in {j \in DOMAIN queue.summary_queue :
                            queue.summary_queue[j].type = "docking_complete"}} :
        TaskId(queue.summary_queue[x[1]].items[x[2]]) = t}
ReportedAt(t) == {i \in Reported : TaskId(hist.handled[i]) = t}
Places(t) ==
    Cardinality(Queued(t)) + Cardinality(Buffered(t))
    + Cardinality(InEvent(t)) + Cardinality(ReportedAt(t))

NoCrash ==
    \A pool \in DOMAIN processes : \A w \in DOMAIN processes[pool] :
        processes[pool][w].pc \notin {"crashed", "killed"}

(* C9: a task put on the docking queue is never in two places (two workers' *)
(* buffers, two events, reported twice); in a run where no worker has       *)
(* crashed it is in exactly one place, so it is not lost, also when its     *)
(* worker took the sentinel with a partial batch; and when the run is over  *)
(* it has been reported once.                                               *)
C9_TaskConservation ==
    \A d \in DOMAIN hist.dispatched :
        LET t == TaskId(hist.dispatched[d])
        IN  /\ Places(t) <= 1
            /\ NoCrash => Places(t) = 1
            /\ driver.pc = "done" => Cardinality(ReportedAt(t)) = 1

(* A worker that took its sentinel with a partial batch in its buffer has   *)
(* run that batch and is about to emit it.                                  *)
C9_Witness ==
    /\ NoCrash
    /\ \E w \in DOMAIN processes.docking_processes :
          LET p == processes.docking_processes[w]
          IN  /\ p.pc = "put" /\ p.cont = "exit"
              /\ Len(p.batched_item.items)
                   < ScenarioOf(ctx, p.batched_item.items[1].scenario_key).batchsizes

(* A run in which the only failures that can happen are per-item failures:  *)
(* failed fetches, ligands failing validation, backend invocations failing  *)
(* or giving no score.  Archives open, uploads succeed, every scenario's    *)
(* program is registered and the tranche filter regex is valid.             *)
PerItemFailuresOnly ==
    /\ ~env.corrupt /\ ~env.upload_fails
    /\ \A j \in DOMAIN ctx.docking_scenarios :
          ctx.docking_scenarios[j].program \in DOMAIN DOCKING_PROGRAMS
    /\ ctx.dynamic_tranche_filtering = 1 => ctx.regex_valid

(* C10 as stated: in such a run no worker terminates abnormally, the driver *)
(* meets no fatal error, and when the run is over every queue is empty.     *)
C10_PerItemFailuresIsolated ==
    PerItemFailuresOnly
    => /\ NoCrash
       /\ driver.pc # "failed"
       /\ driver.pc = "done" => \A q \in DOMAIN queue : queue[q] = <<>>

(* The same statement for the runs in which no copy from the shared file   *)
(* system has failed.                                                       *)
C10_ExceptSharedCopy ==
    (PerItemFailuresOnly /\ \A w \in DOMAIN processes.downloader_processes :
                                processes.downloader_processes[w].cause # "copyfile")
    => /\ NoCrash
       /\ driver.pc # "failed"
       /\ driver.pc = "done" => \A q \in DOMAIN queue : queue[q] = <<>>

(* The workers of the stage being joined that the driver has joined.        *)
JoinedWorkers ==
    IF driver.pc = "flush_join"
    THEN {w \in DOMAIN Pool(driver.stage) : w <= driver.n}
    ELSE {}

(* C11: the driver never goes past a worker whose exit status is non-zero:  *)
(* the workers it has joined, and those of the stages it has drained, have  *)
(* exited with status 0.  When it has found one with a non-zero status it   *)
(* has failed (sys.exit(1)): that worker is of the stage being joined,      *)
(* every worker of every stage is terminated, and no sentinel has been put  *)
(* for a later stage.                                                       *)
C11_FatalJoin ==
    /\ \A w \in JoinedWorkers : Pool(driver.stage)[w].pc = "exited"
    /\ driver.pc \in {"flush_send", "flush_join", "done", "failed"}
          => UpstreamExited(driver.stage)
    /\ driver.pc = "done" => \A s \in StageNumbers : UpstreamExited(s + 1)
    /\ driver.pc = "failed"
          => /\ \E w \in DOMAIN Pool(driver.stage) :
                    Pool(driver.stage)[w].pc = "crashed"
             /\ \A s \in StageNumbers : AllTerminated(s)
             /\ \A s \in StageNumbers :
                    s > driver.stage => s \notin Sent /\ Sentinels(s) = {}

(* The driver has failed at a join and has killed workers of other stages   *)
(* that were still running.                                                 *)
C11_Witness ==
    /\ driver.pc = "failed"
    /\ \E s \in StageNumbers : \E w \in DOMAIN Pool(s) :
          s # driver.stage /\ Pool(s)[w].pc = "killed"

(* A worker has exited with a non-zero status.                              *)
FatalCondition ==
    \E pool \in DOMAIN processes : \E w \in DOMAIN processes[pool] :
        processes[pool][w].pc = "crashed"

(* C12 as stated: after a worker has exited with a non-zero status the      *)
(* subjob does not stop before the driver has failed: as long as the driver *)
(* has not killed the workers and exited, some process can take a step.     *)
C12_FatalEndsSubjob ==
    FatalCondition => driver.pc = "failed" \/ ENABLED Next

(* A run in which archives can fail to open and nothing else can end a      *)
(* worker: collections come from object storage, uploads succeed, every     *)
(* scenario's program is registered and the regex is valid.                 *)
ArchiveFailuresOnly ==
    /\ env.corrupt /\ ~env.upload_fails
    /\ \A j \in DOMAIN ctx.collections : ctx.collections[j].storage = "s3"
    /\ \A j \in DOMAIN ctx.docking_scenarios :
          ctx.docking_scenarios[j].program \in DOMAIN DOCKING_PROGRAMS
    /\ ctx.dynamic_tranche_filtering = 1 => ctx.regex_valid

(* C13 as stated: in such a run no worker of any stage terminates           *)
(* abnormally, the driver meets no fatal error, no task is dispatched for a *)
(* collection whose archive did not open, and when the run is over every    *)
(* queue is empty.                                                          *)
C13_CorruptArchiveDropped ==
    ArchiveFailuresOnly
    => /\ NoCrash
       /\ driver.pc # "failed"
       /\ \A w \in DOMAIN processes.collection_processes :
             LET p == processes.collection_processes[w]
             IN  p.item.type # "None" /\ p.item.ligands_none
                 => DispatchedFor(p.item.collection_key) = {}
       /\ driver.pc = "done" => \A q \in DOMAIN queue : queue[q] = <<>>

(* The download_failed events for collection k: those on the summary queue  *)
(* and those the Aggregator has logged.                                     *)
FailedEventsQueued(k) ==
    {i \in DOMAIN queue.summary_queue :
        /\ queue.summary_queue[i].type = "download_failed"
        /\ queue.summary_queue[i].log.base_collection_key = k}
FailedEventsLogged(k) ==
    {i \in DOMAIN overview_data.failed_downloads_log :
        overview_data.failed_downloads_log[i].base_collection_key = k}

(* The item of collection k is with a later stage.                          *)
Forwarded(k) ==
    \/ \E q \in {"unpack_queue", "collection_queue"} : \E i \in DOMAIN queue[q] :
          queue[q][i].type = "item" /\ queue[q][i].collection_key = k
    \/ \E pool \in {"downloader_processes", "unpacker_processes",
                     "collection_processes"} :
          \E w \in DOMAIN processes[pool] :
              /\ processes[pool][w].item.type = "item"
              /\ processes[pool][w].item.collection_key = k
    \/ MarkersFor(k) # {}

(* What C14 says of a collection k whose fetch has failed.                  *)
FailedFetchReported(k) ==
    /\ Cardinality(FailedEventsQueued(k)) + Cardinality(FailedEventsLogged(k)) = 1
    /\ \A i \in FailedEventsQueued(k) :
          queue.summary_queue[i].log.dockings
              = (CHOOSE c \in Range(ctx.collections) : c.collection_key = k).dockings
    /\ ~Forwarded(k)
    /\ \A w \in DOMAIN processes.downloader_processes :
          processes.downloader_processes[w].pc # "crashed"
    /\ k \notin DOMAIN collection_completions

(* The Aggregator's counters of failed downloads agree with its log.        *)
FailedDownloadsCounted ==
    /\ overview_data.failed_downloads = Len(overview_data.failed_downloads_log)
    /\ overview_data.failed_downloads_dockings =
         SumSeq([i \in DOMAIN overview_data.failed_downloads_log |->
                    overview_data.failed_downloads_log[i].dockings])

(* C14 as stated: for every collection whose fetch has failed, from object  *)
(* storage or from the shared file system, exactly one download_failed      *)
(* event with its key and docking count is queued or logged, its item is    *)
(* not forwarded, the Downloader has not died, and no completion entry      *)
(* exists for it; the Aggregator's counters count the logged events.        *)
C14_DownloadFailedReported ==
    /\ \A k \in Range(hist.fetch_failed) : FailedFetchReported(k)
    /\ FailedDownloadsCounted

(* The same for the collections fetched from object storage.                *)
C14_ObjectStorageOnly ==
    /\ \A c \in Range(ctx.collections) :
          c.storage = "s3" /\ c.collection_key \in Range(hist.fetch_failed)
          => FailedFetchReported(c.collection_key)
    /\ FailedDownloadsCounted

----------------------------------------------------------------------------
(* The two collection keys of a ligand.                                     *)

(* The collection_key a ligand of collection c is to carry.                 *)
ScreenedKey(c, l) ==
    IF c.mode = "prescreen_mode"
    THEN c.listing[CHOOSE n \in KeptRows(c, l) :
                      \A m \in KeptRows(c, l) : m <= n].screen_collection_key
    ELSE c.collection_key

(* Record r (a ligand, a task, an outcome or a log entry) of a ligand of    *)
(* the archive of collection k carries the two keys of that ligand.         *)
KeysCarried(r, k) ==
    /\ r.ligand_key \in KeptLigands(CollectionOf(k))
    /\ r.base_collection_key = k
    /\ r.collection_key = ScreenedKey(CollectionOf(k), r.ligand_key)

(* The items an Unpacker has unpacked and no Validator has finished.        *)
UnpackedItems ==
    {queue.collection_queue[i] :
        i \in {j \in DOMAIN queue.collection_queue :
                  queue.collection_queue[j].type = "item"}}
    \cup {processes.unpacker_processes[w].item :
            w \in {v \in DOMAIN processes.unpacker_processes :
                      processes.unpacker_processes[v].pc \in {"wait", "put"}}}
    \cup {processes.collection_processes[w].item :
            w \in {v \in DOMAIN processes.collection_processes :
                      processes.collection_processes[v].item # None}}

(* The key of the archive a ligand name belongs to.                         *)
ArchiveOf(ligand_key) == ligand_key[1]

(* C15: an unpacked item holds exactly the ligands its mode keeps (in       *)
(* prescreen mode those of a '.listing' row with a screen index below the   *)
(* cutoff, the others are dropped), each with base_collection_key the key   *)
(* of the archive and collection_key the key of its '.listing' row in       *)
(* prescreen mode and the key of the archive in any other mode; every       *)
(* docking task, outcome, log entry and summary row carries the keys of its *)
(* ligand; completion entries and archive requests are keyed by keys of     *)
(* archives only.                                                           *)
C15_KeysCarried ==
    /\ \A item \in UnpackedItems :
          /\ \A j \in DOMAIN item.ligands :
                KeysCarried(item.ligands[j], item.collection_key)
          /\ ~item.ligands_none
                => {item.ligands[j].ligand_key : j \in DOMAIN item.ligands}
                      = KeptLigands(item.collection)
    /\ \A r \in Range(hist.dispatched) \cup InFlight
                 \cup {h \in Range(hist.handled) : h.type = "docking_item"}
                 \cup Range(overview_data.failed_list)
                 \cup Range(overview_data.skipped_ligand_list) :
          KeysCarried(r, ArchiveOf(r.ligand_key))
    /\ \A sc \in DOMAIN summary_data : \A j \in DOMAIN summary_data[sc] :
          LET row == summary_data[sc][j]
          IN  row.collection_key
                 = ScreenedKey(CollectionOf(ArchiveOf(row.ligand)), row.ligand)
    /\ DOMAIN collection_completions \subseteq CollectionKeys
    /\ Range(hist.archived) \subseteq CollectionKeys

(* The collection of a prescreen is archived after an outcome that carries  *)
(* the key of a '.listing' row was handled and another ligand was dropped.  *)
C15_Witness ==
    /\ \E h \in Range(hist.handled) :
          /\ h.type = "docking_item"
          /\ h.collection_key # h.base_collection_key
          /\ h.base_collection_key \in Range(hist.archived)
          /\ KeptLigands(CollectionOf(h.base_collection_key))
                # {LigandName(h.base_collection_key, j) :
                     j \in 1..CollectionOf(h.base_collection_key).capacity}
    /\ driver.pc = "done"

----------------------------------------------------------------------------
(* The Aggregator at its sentinel.                                          *)

Aggregator == processes.summary_processes[1]

(* The Aggregator has handled a docking outcome.                            *)
DockingHandled == \E h \in Range(hist.handled) : h.type = "docking_item"

(* What a step has appended to the upload queue.                            *)
Enqueued ==
    SubSeq(queue.upload_queue', Len(queue.upload_queue) + 1,
           Len(queue.upload_queue'))

(* C16: the step in which the Aggregator takes its sentinel appends the     *)
(* overview report to the upload queue, whether or not a docking was        *)
(* processed, and appends summary tables and archives after it only if a    *)
(* docking outcome was handled; once the Aggregator has exited on the       *)
(* sentinel, nothing is taken from the summary queue and none of the        *)
(* Aggregator's data changes.                                               *)
C16_SentinelUploads ==
    [][ /\ Aggregator.pc = "get" /\ Aggregator'.pc = "exited"
            => /\ Len(queue.upload_queue') > Len(queue.upload_queue)
               /\ SubSeq(queue.upload_queue', 1, Len(queue.upload_queue))
                     = queue.upload_queue
               /\ Enqueued[1] = UploadItem("overview", "")
               /\ \A j \in 2..Len(Enqueued) :
                     Enqueued[j].content \in {"summary", "archive"}
               /\ Len(Enqueued) > 1 <=> DockingHandled
        /\ ~(Aggregator.pc = "get" /\ Aggregator'.pc = "exited")
            => \A j \in (Len(queue.upload_queue) + 1)..Len(queue.upload_queue') :
                  queue.upload_queue'[j].type = "None"
        /\ Aggregator.pc = "exited"
            => /\ UNCHANGED <<overview_data, summary_data, dockings_processed,
                              collection_completions, scratch>>
               /\ hist'.handled = hist.handled /\ hist'.archived = hist.archived
               /\ SubSeq(queue.summary_queue', 1, Len(queue.summary_queue))
                     = queue.summary_queue
      ]_vars

(* A subjob that processed no docking has finished with the overview        *)
(* report as its only upload, and events were handled before the sentinel.  *)
C16_Witness ==
    /\ driver.pc = "done"
    /\ ~DockingHandled
    /\ uploaded.transferred = {UploadItem("overview", "")}
    /\ overview_data.skipped_ligands + overview_data.failed_downloads > 0

----------------------------------------------------------------------------
(* The summary tables and archives of the scenarios.                        *)

SentinelTaken == Aggregator.pc = "get" /\ Aggregator'.pc = "exited"

ScenarioKeys == {ctx.docking_scenarios[j].key : j \in DOMAIN ctx.docking_scenarios}

(* The requests of one kind that the step has enqueued for scenario k.      *)
EnqueuedFor(content, k) ==
    {n \in DOMAIN Enqueued :
        Enqueued[n].content = content /\ Enqueued[n].scenario_key = k}

(* The scenarios configured before k all have rows.                         *)
NoEmptyBefore(k) ==
    \A i, j \in DOMAIN ctx.docking_scenarios :
        i < j /\ ctx.docking_scenarios[j].key = k
            => Len(summary_data[ctx.docking_scenarios[i].key]) > 0

(* C17 as stated: when the Aggregator takes its sentinel after it handled   *)
(* a docking outcome, it enqueues one summary table, holding all the rows,  *)
(* for every configured scenario that has a row, whatever the other         *)
(* scenarios hold, and exactly one archive request for every configured     *)
(* scenario.                                                                *)
C17_SummaryPerScenario ==
    [][ SentinelTaken /\ DockingHandled
          => \A k \in ScenarioKeys :
                /\ Len(summary_data[k]) > 0
                      => /\ Cardinality(EnqueuedFor("summary", k)) = 1
                         /\ \A n \in EnqueuedFor("summary", k) :
                               Len(Enqueued[n].rows) = Len(summary_data[k])
                /\ Len(summary_data[k]) = 0 => EnqueuedFor("summary", k) = {}
                /\ Cardinality(EnqueuedFor("archive", k)) = 1
      ]_vars

(* The same, with a summary table only for the scenarios with rows that     *)
(* are configured before the first scenario without rows.                   *)
C17_UpToFirstEmptyScenario ==
    [][ SentinelTaken /\ DockingHandled
          => \A k \in ScenarioKeys :
                /\ Cardinality(EnqueuedFor("summary", k))
                      = IF Len(summary_data[k]) > 0 /\ NoEmptyBefore(k)
                        THEN 1 ELSE 0
                /\ Cardinality(EnqueuedFor("archive", k)) = 1
      ]_vars

----------------------------------------------------------------------------
(* The reduction of the summary rows.                                       *)

(* The scores of the successful dockings of ligand l in scenario k, in the  *)
(* order the Aggregator handled them.                                       *)
Arrived(k, l) ==
    LET Scores(h) == /\ h.type = "docking_item"
                     /\ h.status = "success"
                     /\ h.scenario_key = k
                     /\ h.ligand_key = l
        outcomes == SelectSeq(hist.handled, Scores)
    IN  [i \in DOMAIN outcomes |-> outcomes[i].score]

(* The rows of the summary tables written so far.                           *)
RowsWritten ==
    UNION {Range(item.rows) :
             item \in {u \in Range(queue.upload_queue) \cup uploaded.transferred :
                          u.type = "item" /\ u.content = "summary"}}

(* C18: every row of a written summary table has score_<i> equal to the     *)
(* i-th score that arrived for its ligand and scenario (counted from 0),    *)
(* score_min equal to the least of these scores, and score_average equal    *)
(* to their sum divided by their number.                                    *)
C18_RowReduction ==
    \A row \in RowsWritten :
        LET scores == Arrived(row.scenario, row.ligand)
        IN  /\ Len(scores) > 0
            /\ DOMAIN row.score = 0..(Len(scores) - 1)
            /\ \A i \in DOMAIN row.score : row.score[i] = scores[i + 1]
            /\ row.score_min \in Range(scores)
            /\ \A i \in DOMAIN scores : row.score_min <= scores[i]
            /\ row.score_average.den > 0
            /\ row.score_average.num * Len(scores)
                  = SumSeq(scores) * row.score_average.den

(* An uploaded row of three scores whose least score arrived second and     *)
(* whose average is no whole number.                                        *)
C18_Witness ==
    \E item \in uploaded.transferred : \E j \in DOMAIN item.rows :
        LET row == item.rows[j]
        IN  /\ DOMAIN row.score = 0..2
            /\ row.score_min = row.score[1]
            /\ row.score_min < row.score[0] /\ row.score_min < row.score[2]
            /\ row.score_average.num % row.score_average.den # 0

----------------------------------------------------------------------------
(* The lifecycle of a completion entry.                                     *)

(* What a step of the Aggregator has handled: one marker, or the outcomes   *)
(* of one event.                                                            *)
NewlyHandled ==
    SubSeq(hist'.handled, Len(hist.handled) + 1, Len(hist'.handled))

NewMarkers(k) ==
    {i \in DOMAIN NewlyHandled :
        /\ NewlyHandled[i].type = "delete"
        /\ NewlyHandled[i].base_collection_key = k}

NewOutcomes(k) ==
    {i \in DOMAIN NewlyHandled :
        /\ NewlyHandled[i].type = "docking_item"
        /\ NewlyHandled[i].base_collection_key = k}

(* The step completes collection k: its entry is gone, its scratch          *)
(* directory is removed and it is archived once more.                       *)
Completes(k) ==
    /\ k \notin DOMAIN collection_completions'
    /\ scratch'[k] = "deleted"
    /\ Occurrences(hist'.archived, k) = Occurrences(hist.archived, k) + 1

(* The step leaves collection k with entry e, not completed.                *)
LeavesEntry(k, e) ==
    /\ k \in DOMAIN collection_completions'
    /\ collection_completions'[k] = e
    /\ Occurrences(hist'.archived, k) = Occurrences(hist.archived, k)

(* The entry of k after a step that handled the marker m.                   *)
AfterMarker(k, m) ==
    IF k \in DOMAIN collection_completions
    THEN [collection_completions[k] EXCEPT
            !.expected_completions = m.expected_completions,
            !.temp_dir = m.temp_dir]
    ELSE [expected_completions |-> m.expected_completions,
          current_completions |-> 0,
          temp_dir |-> m.temp_dir]

(* The entry of k after a step that handled n outcomes of k.                *)
AfterOutcomes(k, n) ==
    IF k \in DOMAIN collection_completions
    THEN [collection_completions[k] EXCEPT !.current_completions = @ + n]
    ELSE [expected_completions |-> UnknownExpected,
          current_completions |-> n,
          temp_dir |-> 0]

(* C19: in every step in which the Aggregator handles events and does not   *)
(* die, for every collection: a marker creates the entry with current 0     *)
(* and its own expected count and scratch directory, or overwrites these    *)
(* two fields of the entry and leaves current; every outcome creates the    *)
(* entry with current 1 and expected unknown or adds 1 to current; the      *)
(* collection is completed in the step exactly if expected is then known    *)
(* and equal to current; an entry with expected unknown is never            *)
(* completed; and a collection the step handled nothing of keeps its        *)
(* entry.                                                                   *)
C19_CompletionLifecycle ==
    [][ Aggregator'.pc = "get"
          => \A k \in CollectionKeys :
                /\ \A i \in NewMarkers(k) :
                      LET e == AfterMarker(k, NewlyHandled[i])
                      IN  IF e.current_completions = e.expected_completions
                          THEN Completes(k) ELSE LeavesEntry(k, e)
                /\ NewOutcomes(k) # {}
                      => LET e == AfterOutcomes(k, Cardinality(NewOutcomes(k)))
                         IN  IF /\ e.expected_completions # UnknownExpected
                                /\ e.current_completions = e.expected_completions
                             THEN Completes(k) ELSE LeavesEntry(k, e)
                /\ NewMarkers(k) = {} /\ NewOutcomes(k) = {}
                      => /\ k \in DOMAIN collection_completions
                             <=> k \in DOMAIN collection_completions'
                         /\ k \in DOMAIN collection_completions
                             => LeavesEntry(k, collection_completions[k])
      ]_vars

(* The entry of a collection was created by an outcome, its marker was      *)
(* handled later, and outcomes are still missing.                           *)
C19_Witness ==
    \E k \in DOMAIN collection_completions :
        /\ collection_completions[k].expected_completions # UnknownExpected
        /\ collection_completions[k].current_completions >= 1
        /\ \E i \in ReportedFor(k) : \A j \in MarkerHandledAt(k) : i < j
        /\ MarkerHandledAt(k) # {}

----------------------------------------------------------------------------
(* Collections without a docking task.                                      *)

(* Every ligand that the Unpacker keeps of collection k was skipped.        *)
NothingToDock(k) == KeptLigands(CollectionOf(k)) \subseteq Range(hist.skipped)

(* C20: the delete marker of a collection for which no task was dispatched  *)
(* carries expected_completions = 0; once the Aggregator has handled such   *)
(* a marker the collection is archived exactly once, its scratch directory  *)
(* is removed and its entry is gone, with no outcome of the collection      *)
(* handled; and in a subjob that has finished, every fetched collection     *)
(* without ligands or with skipped ligands only has had its marker          *)
(* handled.                                                                 *)
C20_NoTaskCollectionCompleted ==
    \A k \in CollectionKeys :
        /\ \A i \in MarkersFor(k) :
              DispatchedFor(k) = {} <=> hist.markers[i].expected_completions = 0
        /\ \A i \in MarkerHandledAt(k) :
              hist.handled[i].expected_completions = 0
              => /\ Occurrences(hist.archived, k) = 1
                 /\ scratch[k] = "deleted"
                 /\ k \notin DOMAIN collection_completions
                 /\ ReportedFor(k) = {}
        /\ driver.pc = "done" /\ scratch[k] # "absent" /\ NothingToDock(k)
              => /\ DispatchedFor(k) = {}
                 /\ MarkerHandledAt(k) # {}

(* A collection without ligands and a collection whose ligands were all     *)
(* skipped are both archived, with no outcome handled.                      *)
C20_Witness ==
    \E k1, k2 \in CollectionKeys :
        /\ KeptLigands(CollectionOf(k1)) = {}
        /\ KeptLigands(CollectionOf(k2)) # {} /\ NothingToDock(k2)
        /\ \A k \in {k1, k2} :
              /\ Occurrences(hist.archived, k) = 1
              /\ scratch[k] = "deleted"
              /\ ReportedFor(k) = {}

----------------------------------------------------------------------------
(* The Executor's buffers.                                                  *)

Executors == DOMAIN processes.docking_processes
Executor(w) == processes.docking_processes[w]

(* The scenarios for which worker p holds buffered tasks.                   *)
Holding(p) ==
    {p.items_queue[j].key :
        j \in {i \in DOMAIN p.items_queue : p.items_queue[i].items # <<>>}}

(* Worker w can take a step.                                                *)
CanStep(w) ==
    ENABLED (ExecutorGet(w) \/ ExecutorIdle(w) \/ ExecutorWait(w)
             \/ ExecutorPut(w))

Dequeued ==
    {TaskId(hist.dispatched[d]) : d \in DOMAIN hist.dispatched}
    \ {t \in {TaskId(hist.dispatched[d]) : d \in DOMAIN hist.dispatched} :
          Queued(t) # {}}

(* No worker of another stage than the Executor's has died of an error.     *)
OnlyExecutorsCrashed ==
    \A pool \in DOMAIN processes \ {"docking_processes"} :
        \A w \in DOMAIN processes[pool] : processes[pool][w].pc # "crashed"

----------------------------------------------------------------------------
(* The batches of the Executor.                                             *)

(* The batches that were run: those of the queued docking_complete events   *)
(* and those the workers are about to emit.                                 *)
Batches ==
    {queue.summary_queue[i] :
        i \in {j \in DOMAIN queue.summary_queue :
                  queue.summary_queue[j].type = "docking_complete"}}
    \cup {Executor(w).batched_item :
            w \in {v \in Executors : Executor(v).pc \in {"wait", "put"}}}

(* C22: every batch that is run has at least one task, tasks of its own     *)
(* scenario key only, and at most as many tasks as the batch size of that   *)
(* scenario; a worker that is at its poll of the docking queue holds, for   *)
(* every scenario, fewer tasks than the batch size, and only tasks of that  *)
(* scenario.                                                                *)
C22_BatchShape ==
    /\ \A b \in Batches :
          /\ Len(b.items) >= 1
          /\ Len(b.items) <= ScenarioOf(ctx, b.scenario_key).batchsizes
          /\ \A j \in DOMAIN b.items : b.items[j].scenario_key = b.scenario_key
    /\ \A w \in Executors : \A j \in DOMAIN Executor(w).items_queue :
          LET e == Executor(w).items_queue[j]
          IN  /\ Executor(w).pc = "get"
                    => Len(e.items) < ScenarioOf(ctx, e.key).batchsizes
              /\ \A n \in DOMAIN e.items : e.items[n].scenario_key = e.key

(* A batch of the full batch size, larger than 1, is queued for the         *)
(* Aggregator by a worker that is at its poll again, with no task left.     *)
C22_Witness ==
    /\ \E i \in DOMAIN queue.summary_queue :
          /\ queue.summary_queue[i].type = "docking_complete"
          /\ Len(queue.summary_queue[i].items) > 1
          /\ Len(queue.summary_queue[i].items)
                = ScenarioOf(ctx, queue.summary_queue[i].scenario_key).batchsizes
    /\ \A w \in Executors :
          Executor(w).pc = "get" /\ Holding(Executor(w)) = {}
    /\ driver.pc = "enqueue"

(* The items of the events the Executors emitted or are about to emit.     *)
Emitted == UNION {Range(b.items) : b \in Batches}

(* The programs whose end function records why it found no score.           *)
ReasonedPrograms ==
    {q \in DOMAIN DOCKING_PROGRAMS :
        DOCKING_PROGRAMS[q].end \in {"docking_finish_vina", "docking_finish_smina"}}

(* C23: in the single-ligand execution model every task of an emitted       *)
(* event has the status "success" or "failed", a failed task carries a      *)
(* reason, and no worker ends because of the result of an invocation: no    *)
(* worker dies in the end function of a backend.                            *)
C23_SingleLigandModel ==
    /\ \A item \in Emitted :
          /\ item.status \in {"success", "failed"}
          /\ item.status = "failed" => item.reason # ""
    /\ \A w \in Executors :
          ~(Executor(w).pc = "crashed" /\ Executor(w).cause = "end function raised")

(* C23 for the backends whose end function sets a reason (qvina02, smina):  *)
(* every task of an emitted event is "success" or "failed", and a failed    *)
(* one carries a reason.                                                    *)
C23_ReasonedBackends ==
    \A item \in Emitted :
        /\ item.status \in {"success", "failed"}
        /\ item.program \in ReasonedPrograms /\ item.status = "failed"
              => item.reason \in {"timeout", "non zero return code",
                                 "Could not find score"}

(* An event of two tasks, one failed and one successful.                    *)
C23_MixedBatch ==
    \E b \in Batches : \E i, j \in DOMAIN b.items :
        /\ b.items[i].status = "failed" /\ b.items[i].reason # ""
        /\ b.items[j].status = "success"

(* The tasks whose invocation an Executor has begun: those of the events    *)
(* emitted, and those of the batch a dead worker was running.               *)
Invoked ==
    Emitted \cup
    UNION { Range(Executor(w).batched_item.items) :
            w \in {v \in Executors : /\ Executor(v).pc = "crashed"
                                     /\ Executor(v).batched_item.type
                                           = "docking_complete"} }

(* C25: every working directory an Executor made for an invocation is       *)
(* deleted once the invocation is over, also when the invocation ended      *)
(* with an error raised while it was built, run or parsed.                  *)
C25_WorkDirsDeleted == \A item \in Invoked : item.tmp_run_dir # "present"

(* C25 for the invocations that return: with a score, without one, with a   *)
(* timeout or a non-zero exit status the working directory is deleted.      *)
C25_DeletedWhenReturned == \A item \in Emitted : item.tmp_run_dir = "deleted"

(* A worker died in the end function of its backend and left the working    *)
(* directory of the task behind.                                            *)
C25_LeftByEndFunction ==
    \E w \in Executors :
        /\ Executor(w).pc = "crashed"
        /\ Executor(w).cause = "end function raised"
        /\ \E item \in Range(Executor(w).batched_item.items) :
              item.tmp_run_dir = "present"

(* The stages with soft backpressure on their downstream queue: the pool,  *)
(* the queue, its high-water mark, and the type of the items put.           *)
SoftStage(pool, q, mark, type) == [pool |-> pool, q |-> q, mark |-> mark, type |-> type]
SoftStages ==
    { SoftStage("downloader_processes", "unpack_queue", UnpackHighWater, "item"),
      SoftStage("unpacker_processes", "collection_queue", CollectionHighWater, "item"),
      SoftStage("docking_processes", "summary_queue", SummaryHighWater,
                "docking_complete") }

(* What worker p of stage s is about to put.                                *)
Carried(s, p) == IF s.pool = "docking_processes" THEN p.batched_item ELSE p.item

(* Worker w of stage s can take a step.                                     *)
ProducerCanStep(s, w) ==
    CASE s.pool = "downloader_processes" ->
             ENABLED (DownloaderGet(w) \/ DownloaderWait(w) \/ DownloaderPut(w))
      [] s.pool = "unpacker_processes" ->
             ENABLED (UnpackerGet(w) \/ UnpackerWait(w) \/ UnpackerPut(w))
      [] OTHER -> CanStep(w)

C26_SameObservation ==
    \E v, w \in Executors :
        v # w /\ Executor(v).pc = "put" /\ Executor(w).pc = "put"

Uploaders == DOMAIN processes.uploader_processes
Uploader(w) == processes.uploader_processes[w]

(* Uploader w died of a failed transfer.                                    *)
FailedUpload(w) ==
    Uploader(w).pc = "crashed" /\ Uploader(w).cause = "upload failed"

(* The requests whose artifact was transferred, by their temp_dir.          *)
TransferredDirs == {item.temp_dir : item \in uploaded.transferred}

(* C27: the temp_dir of an upload request is deleted exactly when its       *)
(* artifact has been transferred; the step in which a transfer fails        *)
(* deletes nothing, leaves the temp_dir of the request in place and ends    *)
(* the worker with a non-zero exit code; the driver then fails, and it      *)
(* does so at the join of the upload stage.                                 *)
C27_TransferThenDelete ==
    /\ [](/\ \A d \in DOMAIN uploaded.temp_dir :
                uploaded.temp_dir[d] = "deleted" <=> d \in TransferredDirs
          /\ (~ENABLED Next /\ \E w \in Uploaders : FailedUpload(w))
                => driver.pc = "failed")
    /\ [][/\ \A w \in Uploaders :
                (Uploader(w)'.pc = "crashed" /\ Uploader(w).pc # "crashed")
                    => /\ uploaded' = uploaded
                       /\ uploaded.temp_dir[Head(queue.upload_queue).temp_dir]
                             = "present"
                       /\ Head(queue.upload_queue) \notin uploaded.transferred
                       /\ ExitCode(Uploader(w)') # 0
          /\ (/\ driver'.pc = "failed" /\ driver.pc # "failed"
              /\ \E w \in Uploaders : FailedUpload(w))
                => driver.pc = "flush_join" /\ driver.stage = Len(StagePool)
         ]_vars

(* A transfer failed, the temp_dir of its request is still there, another   *)
(* request was transferred, and the driver has failed.                      *)
C27_Witness ==
    /\ driver.pc = "failed"
    /\ \E w \in Uploaders : FailedUpload(w)
    /\ \E d \in DOMAIN uploaded.temp_dir :
          uploaded.temp_dir[d] = "present" /\ d \notin TransferredDirs
    /\ uploaded.transferred # {}

(* By how much the log of kind type grows when the Aggregator handles the   *)
(* event ev to its end.                                                     *)
Entries(ev, type) ==
    IF ev.type # type THEN 0
    ELSE IF type = "docking_complete"
    THEN Cardinality({j \in DOMAIN ev.items : ev.items[j].status # "success"})
    ELSE 1

C28_FailedDownloadLogged == Len(overview_data.failed_downloads_log) > 0

(* The failed outcomes handled for ligand l in scenario k.                  *)
FailedFor(k, l) ==
    {i \in DOMAIN hist.handled :
        /\ hist.handled[i].type = "docking_item"
        /\ hist.handled[i].status # "success"
        /\ hist.handled[i].scenario_key = k
        /\ hist.handled[i].ligand_key = l}

(* The ligands with a successful outcome handled in scenario k.             *)
Succeeded(k) ==
    {hist.handled[i].ligand_key :
        i \in {j \in DOMAIN hist.handled :
                  /\ hist.handled[j].type = "docking_item"
                  /\ hist.handled[j].status = "success"
                  /\ hist.handled[j].scenario_key = k}}

(* C29: the table of a scenario has one row for each ligand with a          *)
(* successful outcome in that scenario and no other row, and the scores of  *)
(* a row are the scores of the successful outcomes handled for it, in the   *)
(* order they were handled: the first made the row, each later one          *)
(* appended one score, and failed outcomes added nothing.                   *)
C29_ScoresPerRow ==
    Aggregator.pc # "crashed" =>
        \A k \in DOMAIN summary_data :
            LET rows == summary_data[k]
            IN  /\ \A i, j \in DOMAIN rows :
                      rows[i].ligand = rows[j].ligand => i = j
                /\ {rows[j].ligand : j \in DOMAIN rows} = Succeeded(k)
                /\ \A j \in DOMAIN rows :
                      /\ rows[j].scenario = k
                      /\ rows[j].scores = Arrived(k, rows[j].ligand)
                      /\ Len(rows[j].scores) >= 1

(* A row with one score whose ligand also has a failed outcome handled in   *)
(* the same scenario.                                                       *)
C29_Witness ==
    \E k \in DOMAIN summary_data : \E j \in DOMAIN summary_data[k] :
        /\ Len(summary_data[k][j].scores) = 1
        /\ FailedFor(k, summary_data[k][j].ligand) # {}

(* A row with three scores.                                                 *)
C29_AppendedScores ==
    \E k \in DOMAIN summary_data : \E j \in DOMAIN summary_data[k] :
        Len(summary_data[k][j].scores) = 3

(* The reasons of a skip, in the order the claim gives the checks.          *)
CheckOrder ==
    <<"ligand includes elements", "duplicate coordinates",
      "dynamic tranche filtering">>

(* The checks that line idx of file violates.                               *)
Violations(file, idx) ==
    {r \in Range(CheckOrder) :
        \/ r = "ligand includes elements"
              /\ ctx.run_atom_check = 1 /\ file[idx].banned
        \/ r = "duplicate coordinates"
              /\ file[idx].atom # 0
              /\ \E j \in 1..(idx - 1) : file[j].atom = file[idx].atom
        \/ r = "dynamic tranche filtering"
              /\ ctx.dynamic_tranche_filtering = 1
              /\ file[idx].tranche = "nomatch"}

(* The earliest of the checks rs in the order of the checks.                *)
Earliest(rs) ==
    CheckOrder[CHOOSE i \in DOMAIN CheckOrder :
                  /\ CheckOrder[i] \in rs
                  /\ \A j \in DOMAIN CheckOrder : CheckOrder[j] \in rs => i <= j]

(* The lines of file that violate a check.                                  *)
ViolatingLines(file) == {idx \in DOMAIN file : Violations(file, idx) # {}}

(* The skip events of ligand l, queued or logged.                           *)
SkipEvents(l) ==
    Cardinality({i \in DOMAIN queue.summary_queue :
                    /\ queue.summary_queue[i].type = "skip"
                    /\ queue.summary_queue[i].log.ligand_key = l})
    + Cardinality({i \in DOMAIN overview_data.skipped_ligand_list :
                    overview_data.skipped_ligand_list[i].ligand_key = l})

(* C30 (amended): a skipped ligand is skipped with the reason of the first  *)
(* line of its file that violates a check and, when that line violates      *)
(* several, of the earliest of them in the order banned element, duplicate  *)
(* coordinates, tranche filter; each skipped ligand is skipped once, with   *)
(* one skip event.                                                          *)
C30_FirstViolatingLine ==
    /\ \A i \in DOMAIN hist.scanned :
          LET e == hist.scanned[i]
              lines == ViolatingLines(e.file)
          IN  /\ lines # {}
              /\ e.reason = Earliest(Violations(e.file,
                                CHOOSE idx \in lines : \A j \in lines : idx <= j))
              /\ \A j \in DOMAIN hist.scanned :
                    hist.scanned[j].ligand_key = e.ligand_key => i = j
    /\ \A l \in Range(hist.skipped) : SkipEvents(l) = 1

(* A ligand was skipped for duplicate coordinates, and a later line of its  *)
(* file has a banned element.                                               *)
C30_Witness ==
    \E i \in DOMAIN hist.scanned :
        /\ hist.scanned[i].reason = "duplicate coordinates"
        /\ \E idx \in ViolatingLines(hist.scanned[i].file) :
              "ligand includes elements" \in Violations(hist.scanned[i].file, idx)

(* A ligand was skipped for a banned element on a line that also repeats    *)
(* coordinates.                                                             *)
C30_BothOnOneLine ==
    \E i \in DOMAIN hist.scanned :
        /\ hist.scanned[i].reason = "ligand includes elements"
        /\ \E idx \in ViolatingLines(hist.scanned[i].file) :
              Cardinality(Violations(hist.scanned[i].file, idx)) = 2

(* C30 as stated: a skipped ligand is skipped with the reason of the        *)
(* earliest check, in the order banned element, duplicate coordinates,      *)
(* tranche filter, that any line of its file violates; each skipped ligand  *)
(* has one skip event.                                                      *)
C30_EarliestCheckWins ==
    /\ \A i \in DOMAIN hist.scanned :
          LET e == hist.scanned[i]
          IN  e.reason = Earliest(UNION {Violations(e.file, idx) :
                                           idx \in DOMAIN e.file})
    /\ \A l \in Range(hist.skipped) : SkipEvents(l) = 1

(* The first check to fail in file is the duplicate-coordinate check: the   *)
(* first line that violates a check repeats coordinates and has no banned   *)
(* element, and no earlier line stops the scan for an invalid regex.        *)
DuplicateFailsFirst(file) ==
    /\ ViolatingLines(file) # {}
    /\ LET first == CHOOSE idx \in ViolatingLines(file) :
                        \A j \in ViolatingLines(file) : idx <= j
       IN  /\ Earliest(Violations(file, first)) = "duplicate coordinates"
           /\ ctx.dynamic_tranche_filtering = 1 /\ ~ctx.regex_valid
                 => \A j \in 1..first : file[j].tranche = "none"

(* The skip events of ligand l with the reason r, queued or logged.         *)
SkipEventsWith(l, r) ==
    Cardinality({i \in DOMAIN queue.summary_queue :
                    /\ queue.summary_queue[i].type = "skip"
                    /\ queue.summary_queue[i].log.ligand_key = l
                    /\ queue.summary_queue[i].log.reason = r})
    + Cardinality({i \in DOMAIN overview_data.skipped_ligand_list :
                    /\ overview_data.skipped_ligand_list[i].ligand_key = l
                    /\ overview_data.skipped_ligand_list[i].reason = r})

(* C31: a ligand file whose first failing check is the duplicate-coordinate *)
(* check is skipped with the reason "duplicate coordinates"; a ligand       *)
(* skipped for that reason has one skip event, with that reason, and never  *)
(* a task on the docking queue; and the step that skips a ligand puts       *)
(* nothing on the docking queue and leaves the expected count of the        *)
(* collection as it was.                                                    *)
C31_DuplicateSkipped ==
    /\ [](/\ \A file \in env.files :
                DuplicateFailsFirst(file)
                    => ScanLigand(ctx, file) = "duplicate coordinates"
          /\ \A i \in DOMAIN hist.scanned :
                LET e == hist.scanned[i]
                IN  e.reason = "duplicate coordinates"
                      => /\ DuplicateFailsFirst(e.file)
                         /\ SkipEvents(e.ligand_key) = 1
                         /\ SkipEventsWith(e.ligand_key, e.reason) = 1
                         /\ DispatchedOf(e.ligand_key) = {}
                         /\ \A item \in InFlight : item.ligand_key # e.ligand_key)
    /\ [][Len(hist'.scanned) > Len(hist.scanned)
            => /\ queue'.docking_queue = queue.docking_queue
               /\ hist'.dispatched = hist.dispatched
               /\ \A w \in DOMAIN processes.collection_processes :
                     processes'.collection_processes[w].expected_ligands
                       = processes.collection_processes[w].expected_ligands
         ]_vars

(* A ligand was skipped for duplicate coordinates and the marker of its     *)
(* collection is out, counting the tasks of another ligand only.            *)
C31_Witness ==
    \E i \in DOMAIN hist.scanned : \E m \in DOMAIN hist.markers :
        /\ hist.scanned[i].reason = "duplicate coordinates"
        /\ hist.markers[m].base_collection_key = hist.scanned[i].ligand_key[1]
        /\ hist.markers[m].expected_completions = completions_per_ligand(ctx)
        /\ Cardinality(DispatchedFor(hist.markers[m].base_collection_key))
              = completions_per_ligand(ctx)

(* The ligand files of the archive of collection c.                         *)
ArchiveLigands(c) == {LigandName(c.collection_key, j) : j \in 1..c.capacity}

(* The ligands of collection c that are to be forwarded: in mode named the  *)
(* listed names that are in the archive, in mode full every ligand file.    *)
Selected(c) ==
    IF c.mode = "named" THEN Range(c.ligands) \cap ArchiveLigands(c)
    ELSE IF c.mode = "full" THEN ArchiveLigands(c)
    ELSE KeptLigands(c)

(* Unpacker w takes an item of the unpack queue that is no sentinel.        *)
Unpacks(w) ==
    /\ processes.unpacker_processes[w].pc = "get"
    /\ processes'.unpacker_processes[w] # processes.unpacker_processes[w]
    /\ queue.unpack_queue # <<>>
    /\ queue'.unpack_queue = Tail(queue.unpack_queue)
    /\ Head(queue.unpack_queue).type # "None"

(* Unpacker w goes on to forward the item it took with the ligands keys,    *)
(* none of them the '.listing'.                                             *)
Forwards(w, keys) ==
    LET p == processes'.unpacker_processes[w]
    IN  /\ p.pc = "wait"
        /\ ~p.item.ligands_none
              => /\ {p.item.ligands[j].ligand_key : j \in DOMAIN p.item.ligands}
                      = keys
                 /\ Listing \notin keys

(* C32: an Unpacker that takes an item of mode named forwards it with       *)
(* exactly the listed ligands that are in the archive, one that takes an    *)
(* item of mode full forwards it with every ligand file of the archive and  *)
(* without the '.listing'; a ligand that is not selected is never           *)
(* dispatched.                                                              *)
C32_NamedSelection ==
    /\ [](\A t \in Range(hist.dispatched) :
             t.ligand_key \in Selected(CollectionOf(t.base_collection_key)))
    /\ [][\A w \in DOMAIN processes.unpacker_processes :
            (Unpacks(w) /\ Head(queue.unpack_queue).collection.mode
                              \in {"named", "full"})
               => Forwards(w, Selected(Head(queue.unpack_queue).collection))
         ]_vars

(* The same for the items whose listed ligands are all in the archive.      *)
C32_ListedInArchive ==
    /\ [](\A t \in Range(hist.dispatched) :
             t.ligand_key \in Selected(CollectionOf(t.base_collection_key)))
    /\ [][\A w \in DOMAIN processes.unpacker_processes :
            (/\ Unpacks(w)
             /\ Head(queue.unpack_queue).collection.mode \in {"named", "full"}
             /\ Range(Head(queue.unpack_queue).collection.ligands)
                   \subseteq ArchiveLigands(Head(queue.unpack_queue).collection))
               => Forwards(w, Selected(Head(queue.unpack_queue).collection))
         ]_vars

(* An Unpacker died of a listed ligand that its archive does not hold.      *)
C32_DiedOfAbsentLigand ==
    \E w \in DOMAIN processes.unpacker_processes :
        /\ processes.unpacker_processes[w].pc = "crashed"
        /\ processes.unpacker_processes[w].cause = "KeyError"
        /\ hist.dispatched = <<>>
        /\ driver.pc = "failed"

(* A Validator has left its loop at a tranche annotation, for a regex that  *)
(* does not compile.                                                        *)
ValidatorReturned ==
    \E w \in DOMAIN processes.collection_processes :
        processes.collection_processes[w].cause = "invalid regex"

(* The sum of expected_completions over the delete markers emitted.         *)
ExpectedByMarkers ==
    SumSeq([i \in DOMAIN hist.markers |-> hist.markers[i].expected_completions])

(* Every event is handled: the summary queue is empty, the completion map   *)
(* is empty, every collection with a marker is archived and its scratch     *)
(* directory deleted, and total_dockings is the sum of the expected         *)
(* completions of the markers.                                              *)
AllProcessed ==
    /\ Len(queue.summary_queue) = 1
    /\ DOMAIN collection_completions = {}
    /\ \A i \in DOMAIN hist.markers :
          /\ Occurrences(hist.archived, hist.markers[i].base_collection_key) = 1
          /\ scratch[hist.markers[i].base_collection_key] = "deleted"
    /\ overview_data.total_dockings = ExpectedByMarkers

C33_EntryLeftAtSentinel ==
    /\ Aggregator.pc = "exited"
    /\ NoCrash /\ ValidatorReturned
    /\ DOMAIN collection_completions # {}
    /\ overview_data.total_dockings > ExpectedByMarkers

(* C34: in every state, the entry of a collection counts at most as many   *)
(* completions as tasks were dispatched for the collection, and at most as  *)
(* many as it expects when the expected count is known; and a collection    *)
(* that was completed has no entry, in that state and in every later one.   *)
C34_CompletionBounds ==
    /\ \A k \in DOMAIN collection_completions :
          LET e == collection_completions[k]
          IN  /\ e.current_completions <= Cardinality(DispatchedFor(k))
              /\ e.expected_completions # UnknownExpected
                    => e.current_completions <= e.expected_completions
    /\ \A k \in Range(hist.archived) : k \notin DOMAIN collection_completions

(* One collection is completed while the entry of another, whose expected   *)
(* count is known, waits for an outcome.                                    *)
C34_Witness ==
    \E k \in DOMAIN collection_completions : \E a \in Range(hist.archived) :
        /\ collection_completions[k].expected_completions # UnknownExpected
        /\ collection_completions[k].current_completions
              < collection_completions[k].expected_completions
        /\ Cardinality(ReportedFor(a)) > 0

(* The producers of the queue of stage s are the workers of the stage      *)
(* before it; its consumers are the workers of stage s.                     *)
Producers(s) == DOMAIN Pool(s - 1)
Consumers(s) == DOMAIN Pool(s)

(* The producers that have seen the queue of stage s at or below its mark   *)
(* and have not inserted yet.                                               *)
AboutToPut(s) == {w \in Producers(s) : Pool(s - 1)[w].pc = "put"}

(* The stages whose queue is filled by Downloaders and by Unpackers, with   *)
(* the high-water mark of the queue.                                        *)
Marks == [unpack_queue |-> UnpackHighWater, collection_queue |-> CollectionHighWater]
MarkedStages == {s \in StageNumbers : StageQueue[s] \in DOMAIN Marks}
Mark(s) == Marks[StageQueue[s]]

Successes(k, l) ==
    {i \in DOMAIN hist.handled :
        /\ hist.handled[i].type = "docking_item"
        /\ hist.handled[i].status = "success"
        /\ hist.handled[i].scenario_key = k
        /\ hist.handled[i].ligand_key = l}

FirstSuccess(k, l) ==
    hist.handled[CHOOSE i \in Successes(k, l) : \A j \in Successes(k, l) : i <= j]

Replicas(k) ==
    LET sc == CHOOSE j \in DOMAIN ctx.docking_scenarios :
                  ctx.docking_scenarios[j].key = k
    IN  ctx.docking_scenarios[sc].replicas

NameFilter ==
    /\ ctx.prescreen_mode = 0
    /\ ctx.dynamic_tranche_filtering = 1
    /\ ctx.regex_valid

(* The places, in iteration order, of the collections whose name does not   *)
(* match the regex.                                                         *)
Mismatches == {i \in DOMAIN ctx.collections : ~ctx.collections[i].name_match}

(* The collections at and after the first whose name does not match.        *)
Stopped == {i \in DOMAIN ctx.collections : \E m \in Mismatches : m <= i}

(* What a step has appended to the download queue.                          *)
NewDownloads ==
    {queue.download_queue'[j] :
        j \in (Len(queue.download_queue) + 1)..Len(queue.download_queue')}

(* C37: with the name filter on, the loop of the driver stops at the first  *)
(* collection whose name does not match: the step that meets it puts        *)
(* nothing on the download queue and starts the drain at its first stage;   *)
(* no step puts that collection or one after it on the download queue,      *)
(* whether its name matches or not, and none of them is ever fetched; and   *)
(* a run in which no worker has crashed ends with the driver done.          *)
C37_FirstMismatchStops ==
    /\ [](NameFilter
            => /\ driver.i \notin Stopped \ Mismatches
               /\ \A i \in Stopped : scratch[i] = "absent"
               /\ \A j \in DOMAIN queue.download_queue :
                     queue.download_queue[j].type = "item"
                        => queue.download_queue[j].collection_key
                              \notin {ctx.collections[i].collection_key :
                                         i \in Stopped}
               /\ (~ENABLED Next /\ NoCrash) => driver.pc = "done")
    /\ [][NameFilter
            => /\ \A item \in NewDownloads :
                     item.type = "item"
                        => \E i \in DOMAIN ctx.collections \ Stopped :
                              item.collection = ctx.collections[i]
               /\ (driver.pc = "enqueue" /\ driver.i \in Mismatches
                      /\ driver' # driver)
                     => /\ driver'.pc = "flush_send"
                        /\ driver'.stage = 1
                        /\ queue' = queue
         ]_vars

(* The run is over: the collection before the first mismatch was docked     *)
(* and archived, the collection after it, whose name matches, was never     *)
(* fetched.                                                                 *)
C37_Witness ==
    /\ NameFilter
    /\ driver.pc = "done"
    /\ \E m \in Mismatches : \E i \in Stopped :
          /\ m < i /\ ctx.collections[i].name_match
          /\ scratch[i] = "absent"
          /\ \E a \in DOMAIN ctx.collections \ Stopped :
                ctx.collections[a].collection_key \in Range(hist.archived)

Validators == DOMAIN processes.collection_processes
Validator(w) == processes.collection_processes[w]

(* Validator w has left its loop at a tranche annotation, for a regex that  *)
(* does not compile.                                                        *)
Returned(w) == Validator(w).cause = "invalid regex"

(* The scan of file reaches a tranche annotation: no line up to and with    *)
(* the first annotated line has a banned element or repeats coordinates.    *)
ReachesAnnotation(file) ==
    \E idx \in DOMAIN file :
        /\ file[idx].tranche # "none"
        /\ \A j \in 1..idx :
              Violations(file, j) \cap {"ligand includes elements",
                                       "duplicate coordinates"} = {}

(* The stage of the Validators.                                             *)
ValidatorStage == CHOOSE s \in StageNumbers : StagePool[s] = "collection_processes"

(* C38: with dynamic tranche filtering on and a regex that does not         *)
(* compile, the scan of a ligand file that reaches a tranche annotation     *)
(* ends the Validator: it exits with status 0 in a step that puts nothing   *)
(* on a queue.  From then on the collection it was processing has no        *)
(* marker, is not archived and keeps its scratch directory; the outcomes    *)
(* handled for the collection are counted by an entry whose expected count  *)
(* is unknown, all of the dispatched tasks when the subjob has finished     *)
(* without a crash; and once the sentinels of the stage are sent, as many   *)
(* stay on the collection queue as Validators have returned.                *)
C38_InvalidRegexReturn ==
    /\ [](/\ (ctx.dynamic_tranche_filtering = 1 /\ ~ctx.regex_valid)
                => \A file \in env.files :
                      ReachesAnnotation(file)
                         => ScanLigand(ctx, file) = "invalid regex"
          /\ \A w \in Validators :
                Returned(w)
                   => LET k == Validator(w).item.collection_key
                      IN  /\ Validator(w).pc = "exited"
                          /\ ExitCode(Validator(w)) = 0
                          /\ MarkersFor(k) = {}
                          /\ k \notin Range(hist.archived)
                          /\ scratch[k] = "present"
                          /\ Cardinality(ReportedFor(k))
                                <= Cardinality(DispatchedFor(k))
                          /\ Aggregator.pc # "crashed"
                                => IF ReportedFor(k) = {}
                                   THEN k \notin DOMAIN collection_completions
                                   ELSE /\ k \in DOMAIN collection_completions
                                        /\ collection_completions[k].expected_completions
                                              = UnknownExpected
                                        /\ collection_completions[k].current_completions
                                              = Cardinality(ReportedFor(k))
                          /\ (driver.pc = "done" /\ NoCrash)
                                => Cardinality(ReportedFor(k))
                                      = Cardinality(DispatchedFor(k))
          /\ ValidatorStage \in Sent
                => Cardinality(Sentinels(ValidatorStage))
                      >= Cardinality({w \in Validators : Returned(w)}))
    /\ [][\A w \in Validators :
            (Returned(w)' /\ ~Returned(w))
               => /\ queue' = queue
                  /\ hist' = hist
                  /\ Validator(w)'.item = Validator(w).item
         ]_vars

(* The subjob has finished after a Validator returned from a collection     *)
(* with a task dispatched: the outcome of the task is counted by an entry   *)
(* without expected count, the scratch directory is there, and the          *)
(* sentinel of the Validator is on the collection queue.                    *)
C38_Witness ==
    \E w \in Validators :
        /\ Returned(w)
        /\ driver.pc = "done"
        /\ LET k == Validator(w).item.collection_key
           IN  /\ DispatchedFor(k) # {}
               /\ k \in DOMAIN collection_completions
               /\ collection_completions[k].expected_completions = UnknownExpected
               /\ collection_completions[k].current_completions
                     = Cardinality(DispatchedFor(k))
               /\ scratch[k] = "present"
        /\ Cardinality(Sentinels(ValidatorStage)) = 1
        /\ Len(queue.collection_queue) = 1

====
